---- MODULE Spec2Model ----
(***************************************************************************)
(* mcp-mermaid: the process-wide ShutdownManager (cleanup registry, signal *)
(* listeners, graceful exit), the start-up of the three transport bindings,*)
(* the session registry and the POST route of the server-push (SSE)        *)
(* binding, the routes of the streamable HTTP binding, the HTTP front      *)
(* (createBaseHttpServer and the express applications), the CallTool       *)
(* handler, renderMermaid with its cached renderer and temporary           *)
(* stylesheet, the command line of index.ts and createMermaidInkUrl.       *)
(*                                                                         *)
(* The runtime is Node's single-threaded event loop: one action is one     *)
(* macrotask together with the microtasks (promise continuations) it       *)
(* triggers.                                                               *)
(***************************************************************************)
EXTENDS Integers, Sequences, FiniteSets, TLC

\* ---------------------------------------------------------------- bounds
\* Handlers a host registers through registerCleanup beyond those of start-up.
MaxHandlers == 2
\* Push connections (GET <endpoint>) the SSE listener sees.
MaxConns == 3
\* Deliveries of the close notification to one transport.
MaxCloses == 2
\* POST /messages requests awaiting handlePostMessage at the same time.
MaxPosts == 2
\* Push connections open beside the POST traffic.
MaxPostConns == 2
\* Requests the streamable HTTP listener sees.
MaxReqs == 2
\* Calls of renderMermaid in one process.
MaxRenders == 2

\* ------------------------------------------------------------- vocabulary
\* What a registered cleanup handler does when it is called:
\*   sync      returns (void) normally          throw   throws synchronously
\*   resolve   returns a promise that resolves  reject  ... that rejects
\*   hang      returns a promise that never settles
\*   httpClose the handler of setupCleanupHandlers: httpServer.close(cb)
HostHandlerKinds == {"sync", "throw", "resolve", "reject", "hang"}

Signals == {"SIGINT", "SIGTERM"}

\* The transport values index.ts dispatches on, and "base" for a host that
\* builds its listener with createBaseHttpServer.
CliModes == {"stdio", "sse", "streamable"}

VARIABLES
  mode,             \* "none" until a binding is started
  cleanupHandlers,  \* ShutdownManager.cleanupHandlers: sequence of handler kinds
  isShuttingDown,   \* ShutdownManager.isShuttingDown
  hstatus,          \* per handler: registered | pending | resolved | rejected | threw | timedOut
  invoked,          \* per handler: how many times it has been called
  proc,             \* running | exit0 | exit1 | killed (default action of a signal)
  sigListeners,     \* listeners of process for SIGINT / SIGTERM
  signals,          \* history: the termination signals received so far
  calls,            \* history: how many times cleanup() has been entered
  httpServer,       \* none | listening | closing | closed
  closeOnce,        \* the httpServer.once("close") listener is still attached
  conn,             \* SSE: per push connection, the GET handler's progress and its transport
  transports,       \* SSE: the registry, sessionId -> transport (named by its connection)
  nextSid,          \* SSE: session ids issued so far (each new transport gets a fresh one)
  handling,         \* SSE: the POSTs awaiting transport.handlePostMessage, in arrival order
  lastPost,         \* history: the latest event of a POST /messages request
  req,              \* streamable: per request, the route handler's progress and its response
  nServers,         \* streamable: createServer() calls so far (instances are numbered)
  nTransports,      \* streamable: StreamableHTTPServerTransport instances built so far
  closedServers,    \* streamable: the server instances on which close() was called
  closedTransports, \* streamable: the transport instances on which close() was called
  hreq,             \* HTTP front: the request being dispatched and its response
  tcall,            \* tool handler: the CallTool request in progress and its outcome
  rend,             \* render.ts: the cached renderer, the temporary stylesheet, the renders in flight
  cli,              \* index.ts: the command line of the run and the runners it called
  ink               \* createMermaidInkUrl: the call made, its result and what a reader decodes

shutdownVars == <<cleanupHandlers, isShuttingDown, hstatus, invoked, proc,
                  sigListeners, signals, calls, httpServer, closeOnce>>
sseVars == <<conn, transports, nextSid>>
postVars == <<handling, lastPost>>
streamVars == <<req, nServers, nTransports, closedServers, closedTransports>>
httpVars == <<hreq>>
toolVars == <<tcall>>
renderVars == <<rend>>
cliVars == <<cli>>
inkVars == <<ink>>
vars == <<mode, shutdownVars, sseVars, postVars, streamVars, httpVars, toolVars,
          renderVars, cliVars, inkVars>>

\* What the actions of one component leave alone.
notShutdown == <<sseVars, postVars, streamVars, httpVars, toolVars,
  renderVars, cliVars, inkVars>>
notSse == <<shutdownVars, postVars, streamVars, httpVars, toolVars,
  renderVars, cliVars, inkVars>>
notPost == <<shutdownVars, streamVars, httpVars, toolVars,
  renderVars, cliVars, inkVars>>
notStream == <<shutdownVars, sseVars, postVars, httpVars, toolVars,
  renderVars, cliVars, inkVars>>
notHttp == <<shutdownVars, sseVars, postVars, streamVars, toolVars,
  renderVars, cliVars, inkVars>>
notTool == <<shutdownVars, sseVars, postVars, streamVars, httpVars,
  renderVars, cliVars, inkVars>>
notRender == <<shutdownVars, sseVars, postVars, streamVars, httpVars, toolVars,
  cliVars, inkVars>>
notCli == <<shutdownVars, sseVars, postVars, streamVars, httpVars, toolVars,
  renderVars, inkVars>>
notInk == <<shutdownVars, sseVars, postVars, streamVars, httpVars, toolVars,
  renderVars, cliVars>>

Conns == 1..MaxConns
NotFound == 0
NoConn == [st |-> "none", sid |-> 0, onclose |-> FALSE, listener |-> FALSE,
           resOpen |-> FALSE, status |-> 0, closes |-> 0]

PostConns == 1..MaxPostConns
\* req.query.sessionId of a POST: absent, the empty string, a session id
\* (issued or not), or the name of a property every object inherits
\* ("constructor", "toString", "__proto__", ...).
Queries ==
  {[kind |-> k, id |-> 0] : k \in {"absent", "empty", "inherited"}}
    \cup {[kind |-> "uuid", id |-> i] : i \in 1..MaxPostConns}
\* What transports[sessionId] yields for an inherited property name: a value
\* of Object.prototype, which is truthy and has no handlePostMessage.
Inherited == -1
\* ev: none | answered (by the route itself) | forwarded (handlePostMessage
\* called) | completed (handlePostMessage settled); overtook: an earlier POST
\* was still awaiting when this one completed.
NoPost == [ev |-> "none", q |-> [kind |-> "absent", id |-> 0], status |-> 0,
           lookedUp |-> FALSE, to |-> 0, writes |-> 0, overtook |-> FALSE]
PostInit ==
  /\ handling = <<>>
  /\ lastPost = NoPost

Reqs == 1..MaxReqs
\* JSON-RPC error codes of the streamable routes.
InternalError == -32603
MethodNotAllowed == -32000
\* { jsonrpc: "2.0", error: { code, message }, id: null }
ErrorBody(code, message) ==
  [jsonrpc |-> "2.0", error |-> [code |-> code, message |-> message],
   id |-> "null"]
\* A response nothing was written to by the route.
NoBody == ErrorBody(0, "")
\* st: none | connecting | handling | served | failed | rejected
NoReq == [st |-> "none", method |-> "", server |-> 0, transport |-> 0,
          listener |-> FALSE, resClosed |-> FALSE, status |-> 0,
          body |-> NoBody, writes |-> 0]
StreamInit ==
  /\ req = [r \in Reqs |-> NoReq]
  /\ nServers = 0
  /\ nTransports = 0
  /\ closedServers = {}
  /\ closedTransports = {}

\* What reaches the listener of an HTTP binding: the method, the request
\* target ("/endpoint" stands for the configured endpoint path) and the
\* Origin header.
Methods == {"GET", "POST", "DELETE", "OPTIONS"}
Urls == {"/health", "/ping", "/endpoint", "/messages", "/other"}
Origins == {"absent", "http://a.example", "http://a.example/page", "not a url"}
\* st: none | handling (handlers.handleRequest awaited) | done
NoHreq == [st |-> "none", method |-> "", url |-> "", origin |-> "absent",
           allowOrigin |-> "", trace |-> <<>>, status |-> 0, body |-> "",
           writes |-> 0, unhandled |-> FALSE]
HttpInit == hreq = NoHreq

\* request.params.name of a CallTool request.
ToolNames == {"generate_mermaid_diagram", "Generate_Mermaid_Diagram",
              "render_diagram", ""}
\* request.params.arguments: undefined (given is FALSE), or a mapping in which
\* each recognised key is absent or carries one of a few values.
Mermaids == {"absent", "", "  ", "flowchart TD; A-->B", " graph TD; A-->B; "}
Themes == {"absent", "dark", "neon"}
Backgrounds == {"absent", "#eee"}
OutputTypes == {"absent", "base64", "svg", "mermaid", "file", "svg_url",
                "png_url", "pdf"}
Undefined == [given |-> FALSE, mermaid |-> "absent", theme |-> "absent",
              backgroundColor |-> "absent", outputType |-> "absent"]
Arguments ==
  {Undefined} \cup
  [given : {TRUE}, mermaid : Mermaids, theme : Themes,
   backgroundColor : Backgrounds, outputType : OutputTypes]
\* What renderMermaid was called with, once its default parameters applied.
NoParams == [mermaid |-> "", theme |-> "", backgroundColor |-> ""]
\* What renderMermaid resolved with: the markup and the optional screenshot.
Markups == {"<svg>X</svg>", "<svg>Y</svg>"}
Screenshots == {"undefined", "PNG:x", "PNG:y"}
NoResult == [svg |-> "", screenshot |-> "undefined"]
\* Nothing was thrown inside the handler.
NoCause == [mcp |-> FALSE, isError |-> FALSE, kind |-> "none", message |-> <<"">>]
\* st: idle | rendering (renderMermaid awaited) | returned | failed
\* valid: schema.safeParse succeeded; passed: the parameters of renderMermaid;
\* result: what it resolved with; cause: what was thrown inside the try and
\* reached the outer catch; fileError: what fs.writeFileSync threw;
\* kind, message: the McpError thrown to the caller; content: the payload
\* returned; renders, files: calls of renderMermaid and files written.
NoCall == [st |-> "idle", name |-> "", args |-> Undefined, valid |-> FALSE,
           passed |-> NoParams, result |-> NoResult, cause |-> NoCause,
           fileError |-> NoCause,
           kind |-> "", message |-> <<>>, content |-> <<>>, renders |-> 0,
           files |-> 0]
ToolInit == tcall = NoCall

\* The content of mermaid-tmp-css.css in os.tmpdir(): nothing before the
\* first write, else `svg { background: ${backgroundColor}; }`.
NoCss == <<>>
Css(backgroundColor) == <<"svg { background: ", backgroundColor, "; }">>
\* renderer: 0 while the module variable is undefined, else the instance
\* (instances are numbered as createMermaidRenderer returns them);
\* created: calls of createMermaidRenderer; css: the stylesheet file;
\* calls: the renders awaiting the engine, each with the parameters of its
\* call, the instance it invoked, the stylesheet the engine loaded for it and
\* whether a call had failed before it; started: calls of renderMermaid;
\* failed: some call was rejected.
NoRenders == [renderer |-> 0, created |-> 0, css |-> NoCss, calls |-> <<>>,
              started |-> 0, failed |-> FALSE]
RenderInit == rend = NoRenders

\* The command line of a run: each option is absent or carries a value.
Transports == {"absent", "stdio", "STDIO", "sse", "SSE", "Sse", "streamable",
               "Streamable", "STREAMABLE", "http", ""}
Ports == {"absent", "8080", "80abc", "abc"}
Hosts == {"absent", "", "0.0.0.0"}
Endpoints == {"absent", "", "/stream"}
CommandLines == [transport : Transports, port : Ports, host : Hosts,
                 endpoint : Endpoints, help : BOOLEAN]
\* Number.parseInt of a string that does not start with a digit.
NaN == -1
\* st: none | ran (index.ts has run to its end) | exited (process.exit(0));
\* runs: the runners called, each with its arguments.
NoCli == [st |-> "none",
          argv |-> [transport |-> "absent", port |-> "absent",
                    host |-> "absent", endpoint |-> "absent", help |-> FALSE],
          runs |-> <<>>]
CliInit == cli = NoCli

\* The arguments of createMermaidInkUrl: the diagram code, the variant and
\* the options, undefined (given is FALSE) or an object in which theme and
\* backgroundColor are absent or strings, the empty string included.
InkCodes == {"graph TD; A-->B;", "flowchart LR", "theme"}
InkVariants == {"svg", "img"}
InkOptions ==
  {[given |-> FALSE, theme |-> "absent", backgroundColor |-> "absent"]} \cup
  [given : {TRUE}, theme : {"absent", "", "dark"},
   backgroundColor : {"absent", "", "#eee"}]
\* MermaidInkPayload: { code, mermaid?: { theme?, backgroundColor?,
\* themeVariables?: { background } } }; a key that is not there is "absent".
Payload(code, hasConfig, theme, backgroundColor, background) ==
  [code |-> code, hasMermaid |-> hasConfig,
   mermaid |-> [theme |-> theme, backgroundColor |-> backgroundColor,
                themeVariables |-> background]]
NoPayload == Payload("", FALSE, "absent", "absent", "absent")
\* st: idle | made (the URL was returned) | decoded (a reader took the
\* segment apart); url: what precedes the segment; segment: its characters.
NoInk == [st |-> "idle", code |-> "", variant |-> "",
          options |-> [given |-> FALSE, theme |-> "absent",
                       backgroundColor |-> "absent"],
          url |-> <<>>, segment |-> <<>>, decoded |-> NoPayload]
InkInit == ink = NoInk

\* ------------------------------------------------------------------ Init
Init ==
  /\ mode = "none"
  /\ cleanupHandlers = <<>>
  /\ isShuttingDown = FALSE
  /\ hstatus = <<>>
  /\ invoked = <<>>
  /\ proc = "running"
  /\ sigListeners = [s \in Signals |-> 0]
  /\ signals = <<>>
  /\ calls = 0
  /\ httpServer = "none"
  /\ closeOnce = FALSE
  /\ conn = [c \in Conns |-> NoConn]
  /\ transports = <<>>
  /\ nextSid = 0
  /\ PostInit
  /\ StreamInit
  /\ HttpInit
  /\ ToolInit
  /\ RenderInit
  /\ CliInit
  /\ InkInit

\* ------------------------------------------------------- ShutdownManager
\* Variant: a handler pushed during shutdown is called at once.
PushAndCallLate(hs) ==
  /\ cleanupHandlers' = cleanupHandlers \o hs
  /\ hstatus' = hstatus \o [i \in 1..Len(hs) |->
                              IF isShuttingDown THEN "pending"
                              ELSE "registered"]
  /\ invoked' = invoked \o [i \in 1..Len(hs) |->
                              IF isShuttingDown THEN 1 ELSE 0]

\* this.cleanupHandlers.push(handler), for the handlers hs in order.
PushHandlers(hs) ==
  /\ cleanupHandlers' = cleanupHandlers \o hs
  /\ hstatus' = hstatus \o [i \in 1..Len(hs) |-> "registered"]
  /\ invoked' = invoked \o [i \in 1..Len(hs) |-> 0]

RegisterCleanup(h) ==
  /\ proc = "running"
  /\ Len(cleanupHandlers) < MaxHandlers
  /\ PushHandlers(<<h>>)
  /\ UNCHANGED <<mode, isShuttingDown, proc, sigListeners, signals, calls,
                 httpServer, closeOnce, notShutdown>>

\* The synchronous part of one element of the map: handler() is called inside
\* the try; a synchronous throw is caught and the wrapper completes, a returned
\* non-promise wins the race at once, a promise leaves the wrapper awaiting.
InvokeHandler(h) ==
  CASE h = "sync"  -> "resolved"
    [] h = "throw" -> "threw"
    [] OTHER       -> "pending"

\* Variant: handler() called outside the try, so a synchronous throw ends the map.
CleanupPromisesUncaught(hs) ==
  [i \in 1..Len(hs) |->
     IF \E j \in 1..(i - 1) : hs[j] = "throw" THEN "registered"
     ELSE InvokeHandler(hs[i])]

\* cleanupHandlers.map(async handler => ...): every element is called, in order.
CleanupPromises(hs) == [i \in 1..Len(hs) |-> InvokeHandler(hs[i])]

\* Variant: Promise.race in place of Promise.all, exit after the first wrapper.
AfterAny(hs) ==
  IF \/ \E i \in 1..Len(hs) : hs[i] \notin {"pending", "registered"}
     \/ \A i \in 1..Len(hs) : hs[i] # "pending"
  THEN "exit0" ELSE "running"

\* await Promise.all(cleanupPromises); process.exit(0)
AfterAll(hs) ==
  IF \A i \in 1..Len(hs) : hs[i] # "pending" THEN "exit0" ELSE "running"

\* Variant: the re-entrancy guard left out.
GuardOmitted == FALSE

\* if (this.isShuttingDown) { ...; process.exit(1) }
AlreadyShuttingDown == isShuttingDown

\* Variant: the flag is cleared again once every wrapper has completed.
CleanupStepResetsFlag ==
  /\ calls' = calls + 1
  /\ IF AlreadyShuttingDown
     THEN /\ proc' = "exit1"
          /\ UNCHANGED <<isShuttingDown, hstatus, invoked, httpServer>>
     ELSE /\ hstatus' = CleanupPromises(cleanupHandlers)
          /\ invoked' = [i \in 1..Len(invoked) |->
                           IF hstatus'[i] = "registered" THEN invoked[i]
                           ELSE invoked[i] + 1]
          /\ httpServer' =
               IF \E i \in 1..Len(cleanupHandlers) :
                     cleanupHandlers[i] = "httpClose" /\ hstatus'[i] = "pending"
               THEN "closing" ELSE httpServer
          /\ proc' = AfterAll(hstatus')
          /\ isShuttingDown' = (proc' = "running")

\* The body of cleanup() up to its first suspension.
CleanupStep ==
  /\ calls' = calls + 1
  /\ IF AlreadyShuttingDown
     THEN /\ proc' = "exit1"
          /\ UNCHANGED <<isShuttingDown, hstatus, invoked, httpServer>>
     ELSE /\ isShuttingDown' = TRUE
          /\ hstatus' = CleanupPromises(cleanupHandlers)
          /\ invoked' = [i \in 1..Len(invoked) |->
                           IF hstatus'[i] = "registered" THEN invoked[i]
                           ELSE invoked[i] + 1]
          /\ httpServer' =
               IF \E i \in 1..Len(cleanupHandlers) :
                     cleanupHandlers[i] = "httpClose" /\ hstatus'[i] = "pending"
               THEN "closing" ELSE httpServer
          /\ proc' = AfterAll(hstatus')

\* An explicit shutdown call by the host.
Cleanup ==
  /\ proc = "running"
  /\ CleanupStep
  /\ UNCHANGED <<mode, cleanupHandlers, sigListeners, signals, closeOnce,
                 notShutdown>>

\* removeAllListeners on both signals, then one once-listener on each.
SetupSignalHandlers == sigListeners' = [s \in Signals |-> 1]

\* Variant: process.on, the listener stays attached after a delivery.
ListenerKept(sig) == sigListeners

\* process.once: the listener of sig is detached before it is called.
OnceDelivered(sig) == [sigListeners EXCEPT ![sig] = 0]

\* A termination signal reaches the process. With a listener, cleanup() runs;
\* with no listener the signal's default action ends the process.
Signal(sig) ==
  /\ proc = "running"
  /\ signals' = Append(signals, sig)
  /\ IF sigListeners[sig] > 0
     THEN /\ sigListeners' = OnceDelivered(sig)
          /\ CleanupStep
     ELSE /\ proc' = "killed"
          /\ UNCHANGED <<sigListeners, isShuttingDown, hstatus, invoked,
                         httpServer, calls>>
  /\ UNCHANGED <<mode, cleanupHandlers, closeOnce, notShutdown>>

\* Variant: the handler awaited alone, without the race against a timer.
TimerNeverArmed(st) == FALSE

\* setTimeout(() => reject(new Error("Cleanup timeout")), 3000) is armed for a
\* handler whose call returned.
TimerArmed(st) == st = "pending"

\* The handler's own promise resolves before the timer.
HandlerResolves(i) ==
  /\ proc = "running"
  /\ i \in 1..Len(hstatus)
  /\ hstatus[i] = "pending"
  /\ cleanupHandlers[i] = "resolve"
  /\ hstatus' = [hstatus EXCEPT ![i] = "resolved"]
  /\ proc' = AfterAll(hstatus')
  /\ UNCHANGED <<mode, cleanupHandlers, isShuttingDown, invoked, sigListeners,
                 signals, calls, httpServer, closeOnce, notShutdown>>

\* The handler's own promise rejects before the timer: caught and logged.
HandlerRejects(i) ==
  /\ proc = "running"
  /\ i \in 1..Len(hstatus)
  /\ hstatus[i] = "pending"
  /\ cleanupHandlers[i] = "reject"
  /\ hstatus' = [hstatus EXCEPT ![i] = "rejected"]
  /\ proc' = AfterAll(hstatus')
  /\ UNCHANGED <<mode, cleanupHandlers, isShuttingDown, invoked, sigListeners,
                 signals, calls, httpServer, closeOnce, notShutdown>>

\* The 3000 ms timer of handler i fires first: "Cleanup timeout" is caught.
CleanupTimeout(i) ==
  /\ proc = "running"
  /\ i \in 1..Len(hstatus)
  /\ TimerArmed(hstatus[i])
  /\ hstatus' = [hstatus EXCEPT ![i] = "timedOut"]
  /\ proc' = AfterAll(hstatus')
  /\ UNCHANGED <<mode, cleanupHandlers, isShuttingDown, invoked, sigListeners,
                 signals, calls, httpServer, closeOnce, notShutdown>>

\* ------------------------------------------------------------ httpServer
\* setupCleanupHandlers: registers the listener's close handler, the custom
\* cleanup when one is given, installs the signal listeners and a once
\* listener on the server's "close" that removes all signal listeners.
CreateBaseHttpServer(custom) ==
  /\ proc = "running"
  /\ mode = "none"
  /\ mode' = "base"
  /\ PushHandlers(IF custom = "absent" THEN <<"httpClose">>
                  ELSE <<"httpClose", custom>>)
  /\ SetupSignalHandlers
  /\ closeOnce' = TRUE
  /\ httpServer' = "listening"
  /\ UNCHANGED <<isShuttingDown, proc, signals, calls, notShutdown>>

\* The host closes the listener it was handed back.
HttpServerClose ==
  /\ proc = "running"
  /\ httpServer = "listening"
  /\ httpServer' = "closing"
  /\ UNCHANGED <<mode, cleanupHandlers, isShuttingDown, hstatus, invoked, proc,
                 sigListeners, signals, calls, closeOnce, notShutdown>>

\* The listener emits "close" (its connections have ended): the once listener
\* removes every SIGINT/SIGTERM listener, and the callback given to
\* httpServer.close by the cleanup handler resolves that handler's promise.
HttpServerEmitClose ==
  /\ proc = "running"
  /\ httpServer = "closing"
  /\ httpServer' = "closed"
  /\ closeOnce' = FALSE
  /\ sigListeners' = IF closeOnce THEN [s \in Signals |-> 0] ELSE sigListeners
  /\ hstatus' = [i \in 1..Len(hstatus) |->
                   IF hstatus[i] = "pending" /\ cleanupHandlers[i] = "httpClose"
                   THEN "resolved" ELSE hstatus[i]]
  /\ proc' = IF isShuttingDown THEN AfterAll(hstatus') ELSE proc
  /\ UNCHANGED <<mode, cleanupHandlers, isShuttingDown, invoked, signals,
                 calls, notShutdown>>

\* -------------------------------------------------------------- start-up
\* startStdioMcpServer: registerCleanup(createTransportCleanup(transport)),
\* a handler that closes the transport and swallows what close() throws.
StartStdioMcpServer ==
  /\ proc = "running"
  /\ mode = "none"
  /\ mode' = "stdio"
  /\ PushHandlers(<<"sync">>)
  /\ UNCHANGED <<isShuttingDown, proc, sigListeners, signals, calls,
                 httpServer, closeOnce, notShutdown>>

\* startSSEMcpServer: an express app with the two routes, then app.listen.
StartSSEMcpServer ==
  /\ proc = "running"
  /\ mode = "none"
  /\ mode' = "sse"
  /\ UNCHANGED <<shutdownVars, notShutdown>>

\* startHTTPStreamableServer: an express app with the three routes, then app.listen.
StartHTTPStreamableServer ==
  /\ proc = "running"
  /\ mode = "none"
  /\ mode' = "streamable"
  /\ UNCHANGED <<shutdownVars, notShutdown>>

\* ------------------------------------------------------ the specification
Next ==
  \/ \E h \in HostHandlerKinds : RegisterCleanup(h)
  \/ Cleanup
  \/ \E sig \in Signals : Signal(sig)
  \/ \E i \in 1..(MaxHandlers + 2) : HandlerResolves(i)
  \/ \E i \in 1..(MaxHandlers + 2) : HandlerRejects(i)
  \/ \E i \in 1..(MaxHandlers + 2) : CleanupTimeout(i)
  \/ \E custom \in {"absent", "sync", "throw"} : CreateBaseHttpServer(custom)
  \/ HttpServerClose
  \/ HttpServerEmitClose
  \/ StartStdioMcpServer
  \/ StartSSEMcpServer
  \/ StartHTTPStreamableServer

Spec == Init /\ [][Next]_vars

\* Node runs a due timer: the 3000 ms timer of a pending handler fires unless
\* the process ends first.
FairSpec ==
  /\ Init /\ [][Next]_vars
  /\ \A i \in 1..(MaxHandlers + 2) : WF_vars(CleanupTimeout(i))

\* --------------------------------------------- SSE binding: the registry
\* Variant: storing a transport replaces the registry by its single entry.
PutAlone(reg, sid, t) == [k \in {sid} |-> t]

\* transports[sessionId] = transport
Put(reg, sid, t) ==
  [k \in (DOMAIN reg) \cup {sid} |-> IF k = sid THEN t ELSE reg[k]]

\* Variant: onclose that empties the registry.
DeleteAll(reg, sid) == <<>>

\* Variant: onclose that leaves the entry in place.
DeleteNothing(reg, sid) == reg

\* delete transports[sessionId]: no effect, and no error, for an absent key.
Delete(reg, sid) == [k \in (DOMAIN reg) \ {sid} |-> reg[k]]

\* transports[sessionId], undefined for an absent key.
Lookup(reg, sid) == IF sid \in DOMAIN reg THEN reg[sid] ELSE NotFound

\* app.get(endpoint) up to its await: a transport with a fresh sessionId is
\* built on the response, stored, given its onclose, and server.connect starts.
SseGet(c) ==
  /\ mode = "sse"
  /\ proc = "running"
  /\ conn[c].st = "none"
  /\ nextSid' = nextSid + 1
  /\ transports' = Put(transports, nextSid', c)
  /\ conn' = [conn EXCEPT ![c] = [NoConn EXCEPT !.st = "connecting",
                                                !.sid = nextSid',
                                                !.onclose = TRUE]]
  /\ UNCHANGED <<mode, notSse>>

\* server.connect(transport) resolves: the stream's headers are out and the
\* transport listens for the close of its response.
SseConnectOk(c) ==
  /\ proc = "running"
  /\ conn[c].st = "connecting"
  /\ conn' = [conn EXCEPT ![c].st = "open", ![c].listener = TRUE,
                          ![c].resOpen = TRUE, ![c].status = 200]
  /\ UNCHANGED <<mode, transports, nextSid, notSse>>

\* server.connect(transport) rejects: the catch answers 500 unless the headers
\* are already sent (the transport had started its stream before the failure).
SseConnectFail(c, headersSent) ==
  /\ proc = "running"
  /\ conn[c].st = "connecting"
  /\ conn' = [conn EXCEPT ![c].st = "failed",
                          ![c].listener = headersSent,
                          ![c].resOpen = headersSent,
                          ![c].status = IF headersSent THEN 200 ELSE 500]
  /\ UNCHANGED <<mode, transports, nextSid, notSse>>

\* The transport delivers its close notification (the response closed, or
\* close() was called on it): transport.onclose() runs.
SseClose(c) ==
  /\ proc = "running"
  /\ conn[c].listener
  /\ conn[c].onclose
  /\ conn[c].closes < MaxCloses
  /\ transports' = Delete(transports, conn[c].sid)
  /\ conn' = [conn EXCEPT ![c].st = "closed", ![c].resOpen = FALSE,
                          ![c].closes = @ + 1]
  /\ UNCHANGED <<mode, nextSid, notSse>>

\* ------------------------------------------- SSE binding: POST /messages
\* Variant: only an absent parameter counts as missing (sessionId === undefined).
OnlyUndefinedMissing(q) == q.kind = "absent"

\* if (!sessionId): undefined and "" are falsy.
MissingSessionId(q) == q.kind \in {"absent", "empty"}

\* transports[sessionId] on the object literal {}: an own key yields its
\* transport, an inherited property name yields the inherited value, any
\* other key yields undefined.
RegistryGet(reg, q) ==
  IF q.kind = "inherited" THEN Inherited ELSE Lookup(reg, q.id)

\* app.post("/messages") up to its await, for a request that reached the route.
SsePost(q) ==
  /\ mode = "sse"
  /\ proc = "running"
  /\ IF MissingSessionId(q)
     THEN /\ lastPost' = [NoPost EXCEPT !.ev = "answered", !.q = q,
                                        !.status = 400, !.writes = 1]
          /\ UNCHANGED handling
     ELSE LET t == RegistryGet(transports, q) IN
          IF t = NotFound
          THEN /\ lastPost' = [NoPost EXCEPT !.ev = "answered", !.q = q,
                                             !.lookedUp = TRUE,
                                             !.status = 404, !.writes = 1]
               /\ UNCHANGED handling
          ELSE IF t = Inherited
          THEN \* transport.handlePostMessage is not a function: the
               \* TypeError is caught, no header is sent yet
               /\ lastPost' = [NoPost EXCEPT !.ev = "answered", !.q = q,
                                             !.lookedUp = TRUE,
                                             !.status = 500, !.writes = 1]
               /\ UNCHANGED handling
          ELSE /\ Len(handling) < MaxPosts
               /\ handling' = Append(handling, [q |-> q, to |-> t])
               /\ lastPost' = [NoPost EXCEPT !.ev = "forwarded", !.q = q,
                                             !.lookedUp = TRUE, !.to = t]
  /\ UNCHANGED <<mode, sseVars, notPost>>

\* The sequence s without its i-th element.
RemoveAt(s, i) == SubSeq(s, 1, i - 1) \o SubSeq(s, i + 1, Len(s))

\* Variant: the route handles one POST at a time, in arrival order.
OldestAwaiting(i) == i = 1 /\ Len(handling) >= 1

\* The i-th POST in arrival order is at its await: each request runs its own
\* call of the route handler, and any of them may settle next.
Awaiting(i) == i \in 1..Len(handling)

\* transport.handlePostMessage resolves: the transport has answered (202).
SsePostHandled(i) ==
  /\ proc = "running"
  /\ Awaiting(i)
  /\ handling' = RemoveAt(handling, i)
  /\ lastPost' = [NoPost EXCEPT !.ev = "completed", !.q = handling[i].q,
                                !.lookedUp = TRUE, !.to = handling[i].to,
                                !.status = 202, !.writes = 1,
                                !.overtook = (i > 1)]
  /\ UNCHANGED <<mode, sseVars, notPost>>

\* transport.handlePostMessage rejects: the catch answers 500 unless the
\* transport had already sent its headers.
SsePostFails(i, headersSent) ==
  /\ proc = "running"
  /\ Awaiting(i)
  /\ handling' = RemoveAt(handling, i)
  /\ lastPost' = [NoPost EXCEPT !.ev = "completed", !.q = handling[i].q,
                                !.lookedUp = TRUE, !.to = handling[i].to,
                                !.status = IF headersSent THEN 202 ELSE 500,
                                !.writes = 1,
                                !.overtook = (i > 1)]
  /\ UNCHANGED <<mode, sseVars, notPost>>

\* The SSE binding after startSSEMcpServer returned.
SseInit ==
  /\ mode = "sse"
  /\ cleanupHandlers = <<>>
  /\ isShuttingDown = FALSE
  /\ hstatus = <<>>
  /\ invoked = <<>>
  /\ proc = "running"
  /\ sigListeners = [s \in Signals |-> 0]
  /\ signals = <<>>
  /\ calls = 0
  /\ httpServer = "none"
  /\ closeOnce = FALSE
  /\ conn = [c \in Conns |-> NoConn]
  /\ transports = <<>>
  /\ nextSid = 0
  /\ PostInit
  /\ StreamInit
  /\ HttpInit
  /\ ToolInit
  /\ RenderInit
  /\ CliInit
  /\ InkInit

SseNext ==
  \/ \E c \in Conns : SseGet(c)
  \/ \E c \in Conns : SseConnectOk(c)
  \/ \E c \in Conns, headersSent \in BOOLEAN : SseConnectFail(c, headersSent)
  \/ \E c \in Conns : SseClose(c)

SseSpec == SseInit /\ [][SseNext]_vars

\* The SSE listener under POST traffic.
\* The connection slots are interchangeable: they are taken in order, so that
\* connection c carries session id c.
SsePostNext ==
  \/ \E c \in PostConns : c = nextSid + 1 /\ SseGet(c)
  \/ \E c \in PostConns : SseConnectOk(c)
  \/ \E c \in PostConns, headersSent \in BOOLEAN : SseConnectFail(c, headersSent)
  \/ \E c \in PostConns : SseClose(c)
  \/ \E q \in Queries : SsePost(q)
  \/ \E i \in 1..MaxPosts : SsePostHandled(i)
  \/ \E i \in 1..MaxPosts, headersSent \in BOOLEAN : SsePostFails(i, headersSent)

SsePostSpec == SseInit /\ [][SsePostNext]_vars

\* ------------------------------------------- streamable binding: routes
\* Variant: one server instance, built for the first POST and kept.
CachedServer(n) == IF n = 0 THEN 1 ELSE n

\* createServer(): every call builds a new Server.
NewServer(n) == n + 1

\* app.post(endpoint) up to its first await: a server and a transport are
\* built for this request and server.connect starts.
StreamPost(r) ==
  /\ mode = "streamable"
  /\ proc = "running"
  /\ req[r].st = "none"
  /\ nServers' = NewServer(nServers)
  /\ nTransports' = nTransports + 1
  /\ req' = [req EXCEPT ![r] = [NoReq EXCEPT !.st = "connecting",
                                             !.method = "POST",
                                             !.server = nServers',
                                             !.transport = nTransports']]
  /\ UNCHANGED <<mode, closedServers, closedTransports, notStream>>

\* server.connect(transport) resolves: transport.handleRequest is called.
StreamConnectOk(r) ==
  /\ proc = "running"
  /\ req[r].st = "connecting"
  /\ req' = [req EXCEPT ![r].st = "handling"]
  /\ UNCHANGED <<mode, nServers, nTransports, closedServers, closedTransports,
                 notStream>>

\* Variant: the catch answers whether or not the headers are out.
CatchWritesAlways(headersSent) == TRUE

\* if (!res.headersSent) in the catch.
CatchWrites(headersSent) == ~headersSent

\* The catch of app.post for a response on which the transport had written
\* (headersSent) or not.
Caught(rq, headersSent) ==
  LET sent == IF headersSent THEN [rq EXCEPT !.status = 200, !.writes = 1]
              ELSE rq
  IN  IF CatchWrites(headersSent)
      THEN [sent EXCEPT !.st = "failed", !.status = 500,
                        !.body = ErrorBody(InternalError, "Internal server error"),
                        !.writes = @ + 1]
      ELSE [sent EXCEPT !.st = "failed"]

\* server.connect(transport) rejects: the response is still untouched.
StreamConnectFail(r) ==
  /\ proc = "running"
  /\ req[r].st = "connecting"
  /\ req' = [req EXCEPT ![r] = Caught(req[r], FALSE)]
  /\ UNCHANGED <<mode, nServers, nTransports, closedServers, closedTransports,
                 notStream>>

\* transport.handleRequest resolves: the transport has answered on the
\* response, and only now res.on("close", ...) attaches the teardown.
StreamHandleOk(r) ==
  /\ proc = "running"
  /\ req[r].st = "handling"
  /\ req' = [req EXCEPT ![r].st = "served", ![r].status = 200,
                        ![r].writes = 1, ![r].listener = TRUE]
  /\ UNCHANGED <<mode, nServers, nTransports, closedServers, closedTransports,
                 notStream>>

\* transport.handleRequest rejects, before or after it wrote the headers.
StreamHandleFail(r, headersSent) ==
  /\ proc = "running"
  /\ req[r].st = "handling"
  /\ req' = [req EXCEPT ![r] = Caught(req[r], headersSent)]
  /\ UNCHANGED <<mode, nServers, nTransports, closedServers, closedTransports,
                 notStream>>

\* The response emits "close" (it was finished, or the client went away): a
\* listener attached by then runs transport.close() and server.close().
StreamResClose(r) ==
  /\ proc = "running"
  /\ req[r].st # "none"
  /\ ~req[r].resClosed
  /\ req' = [req EXCEPT ![r].resClosed = TRUE]
  /\ closedTransports' = IF req[r].listener
                         THEN closedTransports \cup {req[r].transport}
                         ELSE closedTransports
  /\ closedServers' = IF req[r].listener
                      THEN closedServers \cup {req[r].server}
                      ELSE closedServers
  /\ UNCHANGED <<mode, nServers, nTransports, notStream>>

\* Variant: the default answer of express for a path without a route.
NotFoundReply == [status |-> 404, body |-> NoBody]

\* res.status(405).json({...}) of the GET and DELETE routes.
MethodNotAllowedReply ==
  [status |-> 405, body |-> ErrorBody(MethodNotAllowed, "Method not allowed")]

\* app.get(endpoint)
StreamGet(r) ==
  /\ mode = "streamable"
  /\ proc = "running"
  /\ req[r].st = "none"
  /\ req' = [req EXCEPT ![r] = [NoReq EXCEPT !.st = "rejected",
                                             !.method = "GET",
                                             !.status = MethodNotAllowedReply.status,
                                             !.body = MethodNotAllowedReply.body,
                                             !.writes = 1]]
  /\ UNCHANGED <<mode, nServers, nTransports, closedServers, closedTransports,
                 notStream>>

\* app.delete(endpoint)
StreamDelete(r) ==
  /\ mode = "streamable"
  /\ proc = "running"
  /\ req[r].st = "none"
  /\ req' = [req EXCEPT ![r] = [NoReq EXCEPT !.st = "rejected",
                                             !.method = "DELETE",
                                             !.status = MethodNotAllowedReply.status,
                                             !.body = MethodNotAllowedReply.body,
                                             !.writes = 1]]
  /\ UNCHANGED <<mode, nServers, nTransports, closedServers, closedTransports,
                 notStream>>

\* The streamable binding after startHTTPStreamableServer returned.
StreamableInit ==
  /\ mode = "streamable"
  /\ cleanupHandlers = <<>>
  /\ isShuttingDown = FALSE
  /\ hstatus = <<>>
  /\ invoked = <<>>
  /\ proc = "running"
  /\ sigListeners = [s \in Signals |-> 0]
  /\ signals = <<>>
  /\ calls = 0
  /\ httpServer = "none"
  /\ closeOnce = FALSE
  /\ conn = [c \in Conns |-> NoConn]
  /\ transports = <<>>
  /\ nextSid = 0
  /\ PostInit
  /\ StreamInit
  /\ HttpInit
  /\ ToolInit
  /\ RenderInit
  /\ CliInit
  /\ InkInit

StreamNext ==
  \/ \E r \in Reqs : StreamPost(r)
  \/ \E r \in Reqs : StreamConnectOk(r)
  \/ \E r \in Reqs : StreamConnectFail(r)
  \/ \E r \in Reqs : StreamHandleOk(r)
  \/ \E r \in Reqs, headersSent \in BOOLEAN : StreamHandleFail(r, headersSent)
  \/ \E r \in Reqs : StreamResClose(r)
  \/ \E r \in Reqs : StreamGet(r)
  \/ \E r \in Reqs : StreamDelete(r)

StreamSpec == StreamableInit /\ [][StreamNext]_vars

\* ------------------------------------------------------ HTTP front ends
\* new URL(origin).origin: scheme, host and port of a parseable origin; the
\* constructor throws for anything else.
UrlOrigin(o) ==
  CASE o = "http://a.example"      -> "http://a.example"
    [] o = "http://a.example/page" -> "http://a.example"
    [] OTHER                       -> "TypeError"

\* handleCORS: the Access-Control-Allow-Origin value set on the response, ""
\* when the request has no Origin header or the header does not parse.
HandleCORS(o) ==
  IF o = "absent" THEN ""
  ELSE IF UrlOrigin(o) = "TypeError" THEN "" ELSE UrlOrigin(o)

\* Variant: no special case for the preflight method.
NeverPreflight(method) == FALSE

\* if (req.method === "OPTIONS")
IsPreflight(method) == method = "OPTIONS"

\* handleCommonEndpoints: the answer it writes, status 0 when it returns false.
HandleCommonEndpoints(method, url) ==
  IF url = "" THEN [status |-> 400, body |-> "No URL"]
  ELSE IF method = "GET" /\ url = "/health" THEN [status |-> 200, body |-> "OK"]
  ELSE IF method = "GET" /\ url = "/ping" THEN [status |-> 200, body |-> "pong"]
  ELSE [status |-> 0, body |-> ""]

\* The request callback of createBaseHttpServer up to its await.
BaseRequest(method, url, origin) ==
  /\ mode = "base"
  /\ proc = "running"
  /\ httpServer = "listening"
  /\ hreq.st # "handling"
  /\ LET rq == [NoHreq EXCEPT !.method = method, !.url = url,
                              !.origin = origin,
                              !.allowOrigin = HandleCORS(origin)]
         common == HandleCommonEndpoints(method, url)
     IN  hreq' =
           IF IsPreflight(method)
           THEN [rq EXCEPT !.st = "done", !.trace = <<"cors", "options">>,
                           !.status = 204, !.writes = 1]
           ELSE IF common.status # 0
           THEN [rq EXCEPT !.st = "done", !.trace = <<"cors", "common">>,
                           !.status = common.status, !.body = common.body,
                           !.writes = 1]
           ELSE [rq EXCEPT !.st = "handling",
                           !.trace = <<"cors", "common", "handler">>]
  /\ UNCHANGED <<mode, notHttp>>

\* handlers.handleRequest resolves: the transport-specific handler answered.
BaseHandlerOk ==
  /\ proc = "running"
  /\ hreq.st = "handling"
  /\ hreq' = [hreq EXCEPT !.st = "done", !.status = 200, !.body = "handler",
                          !.writes = 1]
  /\ UNCHANGED <<mode, notHttp>>

\* handlers.handleRequest rejects: the catch calls res.writeHead(500)
\* unconditionally, which throws when the handler had sent its headers, and
\* that throw leaves the callback's promise rejected with nothing to catch it.
BaseHandlerFails(headersSent) ==
  /\ proc = "running"
  /\ hreq.st = "handling"
  /\ hreq' = IF headersSent
             THEN [hreq EXCEPT !.st = "done", !.status = 200,
                               !.body = "handler", !.writes = 1,
                               !.unhandled = TRUE]
             ELSE [hreq EXCEPT !.st = "done", !.status = 500,
                               !.body = "Internal Server Error", !.writes = 1]
  /\ UNCHANGED <<mode, notHttp>>

\* The routes of the two express applications: the one that takes the
\* request, "none" when the application has no route for it.
ExpressRoute(app, method, url) ==
  CASE app = "sse" /\ method = "GET" /\ url = "/endpoint" -> "get"
    [] app = "sse" /\ method = "POST" /\ url = "/messages" -> "post"
    [] app = "streamable" /\ method = "POST" /\ url = "/endpoint" -> "post"
    [] app = "streamable" /\ method = "GET" /\ url = "/endpoint" -> "get"
    [] app = "streamable" /\ method = "DELETE" /\ url = "/endpoint" -> "delete"
    [] OTHER -> "none"

\* A request to the express application of the SSE or the streamable binding:
\* the cors middleware of the streamable one answers a preflight itself, a
\* request with a route is handed to it, and express answers 404 to the rest.
ExpressRequest(method, url, origin) ==
  /\ mode \in {"sse", "streamable"}
  /\ proc = "running"
  /\ LET rq == [NoHreq EXCEPT !.method = method, !.url = url,
                              !.origin = origin,
                              !.allowOrigin = IF mode = "streamable" THEN "*"
                                              ELSE ""]
         route == ExpressRoute(mode, method, url)
     IN  hreq' =
           IF mode = "streamable" /\ method = "OPTIONS"
           THEN [rq EXCEPT !.st = "done", !.trace = <<"cors", "options">>,
                           !.status = 204, !.writes = 1]
           ELSE IF route # "none"
           THEN [rq EXCEPT !.st = "done", !.trace = <<"route", route>>,
                           !.body = "handler"]
           ELSE [rq EXCEPT !.st = "done", !.trace = <<"notFound">>,
                           !.status = 404, !.writes = 1]
  /\ UNCHANGED <<mode, notHttp>>

\* A listener of one of the three HTTP front ends, started and idle.
HttpFrontInit ==
  /\ mode \in {"sse", "streamable", "base"}
  /\ cleanupHandlers = IF mode = "base" THEN <<"httpClose">> ELSE <<>>
  /\ isShuttingDown = FALSE
  /\ hstatus = IF mode = "base" THEN <<"registered">> ELSE <<>>
  /\ invoked = IF mode = "base" THEN <<0>> ELSE <<>>
  /\ proc = "running"
  /\ sigListeners = [s \in Signals |-> IF mode = "base" THEN 1 ELSE 0]
  /\ signals = <<>>
  /\ calls = 0
  /\ httpServer = IF mode = "base" THEN "listening" ELSE "none"
  /\ closeOnce = (mode = "base")
  /\ conn = [c \in Conns |-> NoConn]
  /\ transports = <<>>
  /\ nextSid = 0
  /\ PostInit
  /\ StreamInit
  /\ HttpInit
  /\ ToolInit
  /\ RenderInit
  /\ CliInit
  /\ InkInit

HttpNext ==
  \/ \E m \in Methods, u \in Urls, o \in Origins : BaseRequest(m, u, o)
  \/ BaseHandlerOk
  \/ \E headersSent \in BOOLEAN : BaseHandlerFails(headersSent)
  \/ \E m \in Methods, u \in Urls, o \in Origins : ExpressRequest(m, u, o)

HttpSpec == HttpFrontInit /\ [][HttpNext]_vars

\* --------------------------------------------------- the tool handler
\* tool.name
ToolName == "generate_mermaid_diagram"

\* request.params.arguments || {}
ArgsOrEmpty(args) == IF args.given THEN args ELSE [Undefined EXCEPT !.given = TRUE]

\* Variant: a schema in which the diagram code is optional.
SafeParseLenient(a) ==
  /\ a.theme \in {"absent", "default", "base", "forest", "dark", "neutral"}
  /\ a.outputType \in {"absent", "base64", "svg", "mermaid", "file",
                       "svg_url", "png_url"}

\* schema.safeParse(args).success: mermaid a non-empty string, theme and
\* outputType absent or in their enumerations, backgroundColor any string.
SafeParseSuccess(a) ==
  /\ a.mermaid \notin {"absent", ""}
  /\ a.theme \in {"absent", "default", "base", "forest", "dark", "neutral"}
  /\ a.outputType \in {"absent", "base64", "svg", "mermaid", "file",
                       "svg_url", "png_url"}

\* A thrown value that is not an McpError: an Error or something else, with
\* its message ("" when it has none).
Cause(isError, text) ==
  [mcp |-> FALSE, isError |-> isError, kind |-> "", message |-> <<text>>]

\* new McpError(kind, message)
McpErr(kind, message) ==
  [mcp |-> TRUE, isError |-> TRUE, kind |-> kind, message |-> message]

\* What renderMermaid and fs.writeFileSync can throw.
RenderCauses == {Cause(TRUE, "Mermaid syntax error: Parse error on line 1"),
                 Cause(TRUE, "Failed to render mermaid diagram: timeout"),
                 Cause(FALSE, "")}
WriteCauses == {Cause(TRUE, "EACCES: permission denied"), Cause(FALSE, "")}
\* fs.writeFileSync returned.
Written == [mcp |-> FALSE, isError |-> FALSE, kind |-> "ok", message |-> <<"">>]

\* The error e leaves the handler.
Throw(c, kind, message) ==
  [c EXCEPT !.st = "failed", !.kind = kind, !.message = message]

\* Variant: a catch that wraps whatever it catches.
CatchWrapsAll(e) ==
  McpErr("InternalError",
         <<"Failed to generate mermaid: ">> \o
           (IF e.message[1] # "" THEN e.message ELSE <<"Unknown error.">>))

\* The outer catch: an McpError is thrown on as it is, anything else becomes
\* InternalError "Failed to generate mermaid: " + (message || "Unknown error.").
HandlerCatch(e) ==
  IF e.mcp THEN e
  ELSE McpErr("InternalError",
              <<"Failed to generate mermaid: ",
                IF e.message[1] # "" THEN e.message[1] ELSE "Unknown error.">>)

\* Variant: the render has already been started when e is thrown.
ThrownAfterRender(c, e) ==
  LET f == HandlerCatch(e)
  IN  Throw([c EXCEPT !.cause = e, !.renders = @ + 1], f.kind, f.message)

\* e is thrown inside the try of the handler.
ThrownInTry(c, e) ==
  LET f == HandlerCatch(e) IN Throw([c EXCEPT !.cause = e], f.kind, f.message)

\* Variant: the arguments are handed to renderMermaid as they came.
RenderParamsRaw(a) ==
  [mermaid |-> a.mermaid, theme |-> a.theme,
   backgroundColor |-> a.backgroundColor]

\* renderMermaid(mermaid, theme = "default", backgroundColor = "white"): the
\* handler passes the raw arguments, an undefined one takes the default.
RenderParams(a) ==
  [mermaid |-> a.mermaid,
   theme |-> IF a.theme = "absent" THEN "default" ELSE a.theme,
   backgroundColor |-> IF a.backgroundColor = "absent" THEN "white"
                       ELSE a.backgroundColor]

\* if (!mermaid || mermaid.trim().length === 0) in renderMermaid
BlankCode(m) == m \in {"absent", "", "  "}

\* const { ..., outputType = "png" } = args
OutputTypeOf(a) == IF a.outputType = "absent" THEN "png" ELSE a.outputType

\* Variant: the source is echoed for outputType "mermaid" without a render.
RenderUnlessEcho(c, a) ==
  IF OutputTypeOf(a) = "mermaid"
  THEN [c EXCEPT !.st = "returned", !.content = <<"text", a.mermaid>>]
  ELSE [c EXCEPT !.st = "rendering", !.renders = @ + 1,
                 !.passed = RenderParams(a)]

\* The handler from the destructuring to its await: renderMermaid is called,
\* which refuses a blank diagram before it starts the render engine.
RenderCalled(c, a) ==
  LET d == [c EXCEPT !.renders = @ + 1, !.passed = RenderParams(a)]
  IN  IF BlankCode(d.passed.mermaid)
      THEN ThrownInTry(d, Cause(TRUE, "Mermaid code cannot be empty"))
      ELSE [d EXCEPT !.st = "rendering"]

\* Variant: every name is taken for the tool.
AnyNameIsTool(name) == TRUE

\* request.params.name === tool.name
IsTool(name) == name = ToolName

\* The CallTool handler up to its await: an unknown name is refused, the
\* arguments are validated, and renderMermaid is called.
ToolCall(name, args) ==
  /\ proc = "running"
  /\ tcall.st = "idle"
  /\ LET c == [NoCall EXCEPT !.name = name, !.args = args]
         a == ArgsOrEmpty(args)
     IN  tcall' =
           IF ~IsTool(name)
           THEN Throw(c, "MethodNotFound", <<"Unknown tool: ", name, ".">>)
           ELSE IF ~SafeParseSuccess(a)
           THEN ThrownInTry(c, McpErr("InvalidParams",
                                      <<"Invalid parameters: ", "zod issues">>))
           ELSE RenderCalled([c EXCEPT !.valid = TRUE], a)
  /\ UNCHANGED <<mode, notTool>>

\* Variant: the bytes handed over as they are.
NotEncoded(b) == b

\* screenshot.toString("base64")
Base64(b) ==
  CASE b = "PNG:x" -> "UE5HOng="
    [] b = "PNG:y" -> "UE5HOnk="
    [] OTHER       -> "undefined"

\* Variant: the file is written whatever the render returned.
ScreenshotNeverMissing(shot) == FALSE

\* if (!screenshot)
ScreenshotMissing(shot) == shot = "undefined"

\* Variant: the cause of a failed write is not reported.
SaveFailureGeneric(e) ==
  McpErr("InternalError", <<"Failed to save file: ", "Unknown file error">>)

\* The catch around fs.writeFileSync.
SaveFailure(e) ==
  McpErr("InternalError",
         <<"Failed to save file: ",
           IF e.isError THEN e.message[1] ELSE "Unknown file error">>)

\* renderMermaid resolves with { id, svg, screenshot }, the screenshot being
\* optional: the handler answers by outputType, writing the file for "file";
\* write is Written or what fs.writeFileSync throws.
ToolRenderResolves(svg, screenshot, write) ==
  /\ proc = "running"
  /\ tcall.st = "rendering"
  /\ LET a == ArgsOrEmpty(tcall.args)
         out == OutputTypeOf(a)
         c == [tcall EXCEPT !.result = [svg |-> svg, screenshot |-> screenshot]]
     IN  tcall' =
           CASE out = "mermaid" ->
                  [c EXCEPT !.st = "returned", !.content = <<"text", a.mermaid>>]
             [] out = "svg" ->
                  [c EXCEPT !.st = "returned", !.content = <<"text", svg>>]
             [] out = "file" ->
                  IF ScreenshotMissing(screenshot)
                  THEN ThrownInTry(c, McpErr("InternalError",
                         <<"Failed to generate screenshot for file output.">>))
                  ELSE IF write = Written
                  THEN [c EXCEPT !.st = "returned", !.files = 1,
                                 !.content = <<"text",
                                   "Mermaid diagram saved to file: ", "filePath">>]
                  ELSE ThrownInTry([c EXCEPT !.fileError = write],
                                   SaveFailure(write))
             [] OTHER ->
                  [c EXCEPT !.st = "returned",
                            !.content = <<"image", Base64(screenshot), "image/png">>]
  /\ UNCHANGED <<mode, notTool>>

\* renderMermaid rejects: the outer catch wraps what it threw.
ToolRenderRejects(cause) ==
  /\ proc = "running"
  /\ tcall.st = "rendering"
  /\ tcall' = ThrownInTry(tcall, cause)
  /\ UNCHANGED <<mode, notTool>>

\* The result or the error has gone back to the caller.
ToolResponded ==
  /\ proc = "running"
  /\ tcall.st \in {"returned", "failed"}
  /\ tcall' = NoCall
  /\ UNCHANGED <<mode, notTool>>

\* A server built by createServer, connected through any binding.
ToolServerInit ==
  /\ mode \in CliModes
  /\ cleanupHandlers = IF mode = "stdio" THEN <<"sync">> ELSE <<>>
  /\ isShuttingDown = FALSE
  /\ hstatus = IF mode = "stdio" THEN <<"registered">> ELSE <<>>
  /\ invoked = IF mode = "stdio" THEN <<0>> ELSE <<>>
  /\ proc = "running"
  /\ sigListeners = [s \in Signals |-> 0]
  /\ signals = <<>>
  /\ calls = 0
  /\ httpServer = "none"
  /\ closeOnce = FALSE
  /\ conn = [c \in Conns |-> NoConn]
  /\ transports = <<>>
  /\ nextSid = 0
  /\ PostInit
  /\ StreamInit
  /\ HttpInit
  /\ ToolInit
  /\ RenderInit
  /\ CliInit
  /\ InkInit

ToolNext ==
  \/ \E name \in ToolNames, args \in Arguments : ToolCall(name, args)
  \/ \E svg \in Markups, screenshot \in Screenshots,
        write \in {Written} \cup WriteCauses :
       ToolRenderResolves(svg, screenshot, write)
  \/ \E cause \in RenderCauses : ToolRenderRejects(cause)
  \/ ToolResponded

ToolSpec == ToolServerInit /\ [][ToolNext]_vars

\* ------------------------------------------------------------ renderMermaid
\* Variant: a renderer is created for every call.
NewRendererEachCall(r) ==
  [r EXCEPT !.created = @ + 1, !.renderer = r.created + 1]

\* if (!renderer) renderer = createMermaidRenderer();
CachedRenderer(r) ==
  IF r.renderer = 0
  THEN [r EXCEPT !.created = @ + 1, !.renderer = r.created + 1]
  ELSE r

\* The engine loads the stylesheet named by the css option for render i: it
\* gets what the file holds at that moment.
LoadCss(r, i) ==
  [r EXCEPT !.calls[i].loaded = TRUE, !.calls[i].styledWith = r.css]

\* renderMermaid(mermaid, theme, backgroundColor) up to its await: the
\* renderer is created if there is none, a blank diagram is refused, the
\* stylesheet is written and the renderer is called with its path.  The
\* engine is mermaid-isomorphic, outside this repository: it may load the
\* stylesheet during the call (atOnce) or after it has started its browser.
RenderMermaid(mermaid, theme, backgroundColor, atOnce) ==
  /\ rend.started < MaxRenders
  /\ LET p == RenderParams([mermaid |-> mermaid, theme |-> theme,
                            backgroundColor |-> backgroundColor])
         r == [CachedRenderer(rend) EXCEPT !.started = @ + 1]
         w == [r EXCEPT !.css = Css(p.backgroundColor),
                        !.calls = Append(@,
                          [theme |-> p.theme,
                           backgroundColor |-> p.backgroundColor,
                           engine |-> r.renderer, loaded |-> FALSE,
                           styledWith |-> NoCss, afterFailure |-> r.failed])]
     IN  rend' = IF BlankCode(p.mermaid) THEN [r EXCEPT !.failed = TRUE]
                 ELSE IF atOnce THEN LoadCss(w, Len(w.calls))
                 ELSE w
  /\ UNCHANGED <<mode, notRender>>

\* The engine loads the stylesheet of render i some time after the call.
EngineLoadsCss(i) ==
  /\ i \in 1..Len(rend.calls)
  /\ ~rend.calls[i].loaded
  /\ rend' = LoadCss(rend, i)
  /\ UNCHANGED <<mode, notRender>>

\* The promise of render i settles: fulfilled once the diagram was drawn with
\* the stylesheet loaded, rejected at any moment; renderMermaid returns the
\* value or throws.
EngineSettles(i, fulfilled) ==
  /\ i \in 1..Len(rend.calls)
  /\ fulfilled => rend.calls[i].loaded
  /\ rend' = [rend EXCEPT !.calls = RemoveAt(@, i),
                          !.failed = @ \/ ~fulfilled]
  /\ UNCHANGED <<mode, notRender>>

RenderNext ==
  \/ \E mermaid \in {"  ", "flowchart TD; A-->B"}, theme \in {"absent", "dark"},
        backgroundColor \in Backgrounds, atOnce \in BOOLEAN :
       RenderMermaid(mermaid, theme, backgroundColor, atOnce)
  \/ \E i \in 1..MaxRenders : EngineLoadsCss(i)
  \/ \E i \in 1..MaxRenders, fulfilled \in BOOLEAN : EngineSettles(i, fulfilled)

RenderSpec == ToolServerInit /\ [][RenderNext]_vars

\* ------------------------------------------------------------------ index.ts
\* parseArgs: an option that is not on the command line takes its default.
OptionValue(v, default) == IF v = "absent" THEN default ELSE v

\* Variant: the transport is compared as it was typed.
AsTyped(s) == s

\* values.transport.toLowerCase()
ToLowerCase(s) ==
  CASE s \in {"STDIO"} -> "stdio"
    [] s \in {"SSE", "Sse"} -> "sse"
    [] s \in {"Streamable", "STREAMABLE"} -> "streamable"
    [] OTHER -> s

\* Number.parseInt(s, 10): the leading digits, NaN when there are none.
ParseInt(s) ==
  CASE s = "3033" -> 3033
    [] s = "8080" -> 8080
    [] s = "80abc" -> 80
    [] OTHER -> NaN

\* values.endpoint || fallback, values.host || undefined
OrElse(v, fallback) == IF v = "" THEN fallback ELSE v

\* A call of a runner of server.ts (runStdioServer takes no argument).
RunnerCall(runner, endpoint, port, host) ==
  [runner |-> runner, endpoint |-> endpoint, port |-> port, host |-> host]

\* One run of index.ts: --help prints the usage and exits; otherwise the
\* runner of the transport is called.
CliMain(argv) ==
  /\ cli.st = "none"
  /\ LET transport == ToLowerCase(OptionValue(argv.transport, "stdio"))
         port == ParseInt(OptionValue(argv.port, "3033"))
         host == OrElse(OptionValue(argv.host, ""), "undefined")
         endpoint == OptionValue(argv.endpoint, "")
         c == [cli EXCEPT !.argv = argv]
     IN  cli' =
           IF argv.help THEN [c EXCEPT !.st = "exited"]
           ELSE IF transport = "sse"
           THEN [c EXCEPT !.st = "ran", !.runs = Append(@,
                   RunnerCall("runSSEServer", OrElse(endpoint, "/sse"), port,
                              host))]
           ELSE IF transport = "streamable"
           THEN [c EXCEPT !.st = "ran", !.runs = Append(@,
                   RunnerCall("runHTTPStreamableServer",
                              OrElse(endpoint, "/mcp"), port, host))]
           ELSE [c EXCEPT !.st = "ran", !.runs = Append(@,
                   RunnerCall("runStdioServer", "", NaN, "undefined"))]
  /\ UNCHANGED <<mode, notCli>>

CliNext == \E argv \in CommandLines : CliMain(argv)

CliSpec == Init /\ [][CliNext]_vars

\* ------------------------------------------------------- createMermaidInkUrl
\* if (options?.theme), if (options?.backgroundColor): undefined and the
\* empty string are both falsy.
Truthy(v) == v \notin {"absent", ""}

\* Variant: the background colour is left out of the configuration.
ThemeOnlyPayload(code, options) ==
  Payload(code, Truthy(options.theme),
          IF Truthy(options.theme) THEN options.theme ELSE "absent",
          "absent", "absent")

\* mermaidConfig and payload: the theme and the background colour go in when
\* truthy, the mermaid key when mermaidConfig has a key.
PayloadOf(code, options) ==
  LET theme == IF Truthy(options.theme) THEN options.theme ELSE "absent"
      bg == IF Truthy(options.backgroundColor) THEN options.backgroundColor
            ELSE "absent"
  IN  Payload(code, theme # "absent" \/ bg # "absent", theme, bg, bg)

\* JSON.stringify(payload), as the sequence of its keys and string values in
\* insertion order.
JsonStringify(p) ==
  <<"code", p.code>> \o
  (IF ~p.hasMermaid THEN <<>>
   ELSE <<"mermaid">> \o
        (IF p.mermaid.theme = "absent" THEN <<>>
         ELSE <<"theme", p.mermaid.theme>>) \o
        (IF p.mermaid.backgroundColor = "absent" THEN <<>>
         ELSE <<"backgroundColor", p.mermaid.backgroundColor>>) \o
        (IF p.mermaid.themeVariables = "absent" THEN <<>>
         ELSE <<"themeVariables", "background", p.mermaid.themeVariables>>))

\* JSON.parse of such a text.
JsonParse(t) ==
  LET m == SubSeq(t, 4, Len(t))
      hasTheme == Len(m) >= 2 /\ m[1] = "theme"
      m2 == IF hasTheme THEN SubSeq(m, 3, Len(m)) ELSE m
      hasBg == Len(m2) >= 2 /\ m2[1] = "backgroundColor"
      m3 == IF hasBg THEN SubSeq(m2, 3, Len(m2)) ELSE m2
      hasVars == Len(m3) >= 3 /\ m3[1] = "themeVariables"
                   /\ m3[2] = "background"
  IN  Payload(IF Len(t) >= 2 /\ t[1] = "code" THEN t[2] ELSE "absent",
              Len(t) >= 3 /\ t[3] = "mermaid",
              IF hasTheme THEN m[2] ELSE "absent",
              IF hasBg THEN m2[2] ELSE "absent",
              IF hasVars THEN m3[3] ELSE "absent")

\* deflateSync and inflateSync belong to node:zlib: what stands for them is a
\* coding with the two-byte zlib header of level 9 and one byte for each item
\* of the text, undone by its inverse.
Dictionary ==
  [t \in {"code", "mermaid", "theme", "backgroundColor", "themeVariables",
          "background", "graph TD; A-->B;", "flowchart LR", "dark", "#eee",
          "", "absent"} |->
     CASE t = "code" -> 251            [] t = "mermaid" -> 255
       [] t = "theme" -> 239           [] t = "backgroundColor" -> 190
       [] t = "themeVariables" -> 62   [] t = "background" -> 63
       [] t = "graph TD; A-->B;" -> 0  [] t = "flowchart LR" -> 248
       [] t = "dark" -> 100            [] t = "#eee" -> 203
       [] t = "" -> 127                [] OTHER -> 1]
DeflateSync(text) ==
  <<120, 218>> \o [i \in 1..Len(text) |-> Dictionary[text[i]]]
InflateSync(bytes) ==
  [i \in 1..(Len(bytes) - 2) |->
     CHOOSE t \in DOMAIN Dictionary : Dictionary[t] = bytes[i + 2]]

\* The base64 alphabet.
B64 ==
  <<"A", "B", "C", "D", "E", "F", "G", "H", "I", "J", "K", "L", "M", "N", "O",
    "P", "Q", "R", "S", "T", "U", "V", "W", "X", "Y", "Z", "a", "b", "c", "d",
    "e", "f", "g", "h", "i", "j", "k", "l", "m", "n", "o", "p", "q", "r", "s",
    "t", "u", "v", "w", "x", "y", "z", "0", "1", "2", "3", "4", "5", "6", "7",
    "8", "9", "+", "/">>

\* compressed.toString("base64"): three bytes make four characters, the last
\* group is padded with "=".
RECURSIVE ToBase64(_)
ToBase64(b) ==
  IF Len(b) = 0 THEN <<>>
  ELSE IF Len(b) = 1
  THEN <<B64[b[1] \div 4 + 1], B64[(b[1] % 4) * 16 + 1], "=", "=">>
  ELSE IF Len(b) = 2
  THEN <<B64[b[1] \div 4 + 1], B64[(b[1] % 4) * 16 + b[2] \div 16 + 1],
         B64[(b[2] % 16) * 4 + 1], "=">>
  ELSE <<B64[b[1] \div 4 + 1], B64[(b[1] % 4) * 16 + b[2] \div 16 + 1],
         B64[(b[2] % 16) * 4 + b[3] \div 64 + 1], B64[(b[3] % 64) + 1]>>
       \o ToBase64(SubSeq(b, 4, Len(b)))

\* Buffer.from(s, "base64"): four characters make three bytes; it stops at
\* "=" and takes an unpadded last group.
B64Index(ch) == CHOOSE v \in 0..63 : B64[v + 1] = ch
RECURSIVE FromBase64(_)
FromBase64(s) ==
  LET n == IF Len(s) >= 4 THEN 4 ELSE Len(s)
      k == Cardinality({i \in 1..n : \A j \in 1..i : s[j] # "="})
      v == [i \in 1..k |-> B64Index(s[i])]
  IN  IF k < 2 THEN <<>>
      ELSE IF k = 2 THEN <<v[1] * 4 + v[2] \div 16>>
      ELSE IF k = 3
      THEN <<v[1] * 4 + v[2] \div 16, (v[2] % 16) * 16 + v[3] \div 4>>
      ELSE <<v[1] * 4 + v[2] \div 16, (v[2] % 16) * 16 + v[3] \div 4,
             (v[3] % 4) * 64 + v[4]>> \o FromBase64(SubSeq(s, 5, Len(s)))

\* s.replace(/x/g, "y") for a one-character pattern.
ReplaceAll(s, from, to) ==
  [i \in 1..Len(s) |-> IF s[i] = from THEN to ELSE s[i]]

\* s.replace(/=+$/g, "")
RECURSIVE StripPadding(_)
StripPadding(s) ==
  IF Len(s) > 0 /\ s[Len(s)] = "=" THEN StripPadding(SubSeq(s, 1, Len(s) - 1))
  ELSE s

\* encodeMermaidToBase64Url(payload)
EncodeMermaidToBase64Url(payload) ==
  StripPadding(ReplaceAll(ReplaceAll(
    ToBase64(DeflateSync(JsonStringify(payload))), "+", "-"), "/", "_"))

\* What a reader of the URL does with the segment: base64url back to base64,
\* decode, inflate, parse.
DecodeSegment(segment) ==
  JsonParse(InflateSync(FromBase64(
    ReplaceAll(ReplaceAll(segment, "-", "+"), "_", "/"))))

\* createMermaidInkUrl(mermaid, variant, options)
CreateMermaidInkUrl(code, variant, options) ==
  /\ ink.st = "idle"
  /\ ink' = [ink EXCEPT !.st = "made", !.code = code, !.variant = variant,
                        !.options = options,
                        !.url = <<"https://mermaid.ink/", variant, "/pako:">>,
                        !.segment =
                          EncodeMermaidToBase64Url(PayloadOf(code, options))]
  /\ UNCHANGED <<mode, notInk>>

\* The URL is taken apart by whoever received it.
InkUrlDecoded ==
  /\ ink.st = "made"
  /\ ink' = [ink EXCEPT !.st = "decoded",
                        !.decoded = DecodeSegment(ink.segment)]
  /\ UNCHANGED <<mode, notInk>>

InkNext ==
  \/ \E code \in InkCodes, variant \in InkVariants, options \in InkOptions :
       CreateMermaidInkUrl(code, variant, options)
  \/ InkUrlDecoded

InkSpec == Init /\ [][InkNext]_vars

\* ================================================================ claims
Handlers == 1..Len(cleanupHandlers)

\* C1: when cleanup() runs from Idle, every handler registered before it is
\* called exactly once, whatever the other handlers do (throw, reject, hang);
\* and no handler is ever called more than once.
C1_EveryHandlerInvokedOnce ==
  /\ [][(~isShuttingDown /\ isShuttingDown') =>
          \A i \in Handlers : invoked'[i] = 1 /\ hstatus'[i] # "registered"]_vars
  /\ [](\A i \in Handlers : invoked[i] <= 1)

\* C1 witness: three handlers, an earlier one threw, a later one never settled
\* and timed out, and each of the three was called once.
C1_Witness ==
  /\ isShuttingDown
  /\ Len(cleanupHandlers) >= 3
  /\ \A i \in Handlers : invoked[i] = 1
  /\ \E i, j \in Handlers :
       /\ i < j
       /\ cleanupHandlers[i] = "throw" /\ hstatus[i] = "threw"
       /\ cleanupHandlers[j] = "hang" /\ hstatus[j] = "timedOut"

\* C2 (as stated): a cleanup started from Idle eventually reaches process.exit(0).
C2_AlwaysReachesExit0 == isShuttingDown ~> (proc = "exit0")

\* C2 (amended): a cleanup started from Idle eventually ends the process, a
\* handler that never settles being completed by its timeout; the end is
\* process.exit(0) unless cleanup() is entered again (exit 1) or a signal with
\* no listener left takes its default action.
C2_ShutdownTerminates ==
  /\ isShuttingDown ~> (proc # "running")
  /\ [](isShuttingDown /\ proc = "exit1" => calls >= 2)
  /\ [](isShuttingDown /\ proc = "killed" => Len(signals) >= 1)
  /\ [](isShuttingDown /\ proc # "running" /\ calls = 1 /\ signals = <<>>
          => proc = "exit0")

\* C2 witness: a handler that never settles was completed by its timeout and
\* the process then exited with 0.
C2_Witness ==
  /\ proc = "exit0"
  /\ \E i \in Handlers : cleanupHandlers[i] = "hang" /\ hstatus[i] = "timedOut"

\* C3: process.exit(0) is never called while a started handler has neither
\* settled nor timed out.
C3_Exit0OnlyAfterAllSettled ==
  proc = "exit0" => \A i \in Handlers : hstatus[i] # "pending"

\* C3 witness: exit(0) after one handler resolved late and another timed out.
C3_Witness ==
  /\ proc = "exit0"
  /\ \E i, j \in Handlers :
       /\ cleanupHandlers[i] = "resolve" /\ hstatus[i] = "resolved"
       /\ hstatus[j] = "timedOut"

\* C4: cleanup() entered while isShuttingDown exits the process with status 1
\* and calls no handler again.
C4_NotReentrant ==
  [][(isShuttingDown /\ calls' > calls) =>
        (proc' = "exit1" /\ invoked' = invoked /\ hstatus' = hstatus)]_vars

\* C4 witness: a second cleanup() ended the process with 1 while a handler of
\* the first was still pending, called once.
C4_Witness ==
  /\ proc = "exit1"
  /\ calls = 2
  /\ \E i \in Handlers : hstatus[i] = "pending" /\ invoked[i] = 1

\* C5 (as stated): once the signal listeners are installed and a first signal
\* has started cleanup, any further termination signal received while shutting
\* down, the same or the other, before or after the listener's "close", ends
\* the process through cleanup() with status 1.
C5_SecondSignalForcesExit1 ==
  [][(/\ mode = "base"
      /\ isShuttingDown /\ proc = "running"
      /\ Len(signals) = 1 /\ calls = 1
      /\ signals' # signals)
       => (proc' = "exit1" /\ calls' = 2)]_vars

\* C5 (amended): such a second signal ends the process at once and calls no
\* cleanup handler again: through cleanup() and process.exit(1) when it is the
\* other signal and the listener has not yet emitted "close", and by the
\* signal's default action, no listener being left, when it is the same signal
\* as the first or comes after "close".
C5_SecondSignalEndsProcess ==
  [][(/\ mode = "base"
      /\ isShuttingDown /\ proc = "running"
      /\ Len(signals) = 1 /\ calls = 1
      /\ signals' # signals)
       => /\ invoked' = invoked
          /\ proc' = IF signals'[2] # signals[1] /\ closeOnce
                     THEN "exit1" ELSE "killed"
          /\ (proc' = "exit1") = (calls' = 2)]_vars

\* C5 witness: the same signal twice, the second one during the shutdown the
\* first one started; the process died by the signal's default action.
C5_Witness ==
  /\ mode = "base"
  /\ isShuttingDown
  /\ calls = 1
  /\ Len(signals) = 2 /\ signals[1] = signals[2]
  /\ proc = "killed"
  /\ closeOnce

\* C6 (as stated): in each of the transport modes stdio, sse and streamable a
\* termination signal received while Idle moves the coordinator to ShuttingDown
\* and runs the registered cleanup actions.
C6_SignalStartsCleanupInEveryMode ==
  [][(/\ mode \in CliModes
      /\ ~isShuttingDown /\ proc = "running"
      /\ signals' # signals)
       => (isShuttingDown' /\ \A i \in Handlers : invoked'[i] = 1)]_vars

\* C7: the coordinator only moves forward, Idle -> ShuttingDown -> Exited:
\* isShuttingDown is never reset, process.exit(0) happens only in ShuttingDown,
\* and an ended process stays ended, whatever is registered, called or signalled.
C7_ForwardOnly ==
  [][/\ isShuttingDown => isShuttingDown'
     /\ (proc # "exit0" /\ proc' = "exit0") => isShuttingDown'
     /\ proc # "running" => (proc' = proc /\ isShuttingDown' = isShuttingDown)]_vars

\* C7 witness: the process exited with 0 in ShuttingDown although a handler was
\* registered during the shutdown (it is still merely registered).
C7_Witness ==
  /\ proc = "exit0"
  /\ isShuttingDown
  /\ \E i, j \in Handlers : hstatus[i] = "registered" /\ hstatus[j] = "timedOut"

\* C8 (as stated): once any of the three transport bindings has started, the
\* coordinator's handler list is non-empty (it holds the action that closes
\* that binding's transport or listening socket).
C8_EveryBindingRegistersCleanup ==
  mode \in CliModes => Len(cleanupHandlers) >= 1

\* ------------------------------------------------------- SSE registry
\* C9: a created session is found under its sessionId and the lookup returns
\* its own transport; after the close notification removed it the lookup
\* reports not-found; a further removal of the same id changes nothing.
C9_RegistryRoundTrip ==
  /\ [](\A c \in Conns :
          /\ (conn[c].st # "none" /\ conn[c].closes = 0)
               => Lookup(transports, conn[c].sid) = c
          /\ conn[c].closes >= 1
               => Lookup(transports, conn[c].sid) = NotFound)
  /\ [][\A c \in Conns :
          (conn[c].closes >= 1 /\ conn'[c].closes > conn[c].closes)
             => transports' = transports]_vars

\* C9 witness: one session removed and its close delivered a second time, while
\* another live session is still found under its own id.
C9_Witness ==
  \E c, d \in Conns :
    /\ c # d
    /\ conn[c].closes = 2
    /\ Lookup(transports, conn[c].sid) = NotFound
    /\ conn[d].st = "open"
    /\ Lookup(transports, conn[d].sid) = d

\* No GET handler is suspended at its await.
Quiescent == \A c \in Conns : conn[c].st # "connecting"

\* The session ids of the push connections whose response stream is open.
OpenSessions == {conn[c].sid : c \in {d \in Conns : conn[d].resOpen}}

\* C10 (as stated): in every quiescent state the registry holds exactly the
\* sessions of the open push connections, so none for a GET whose
\* server.connect failed and was answered with 500.
C10_RegistryMatchesOpenConnections ==
  Quiescent => DOMAIN transports = OpenSessions

\* C11: the removal of a session is triggered by its own close notification,
\* whose callback is set when the session is created; each delivery, the first
\* or a later one, through any path, leaves the session's entry absent and
\* every other entry as it was, and an absent entry stays absent.
C11_RemovalTakesEffectOnce ==
  /\ [](\A c \in Conns : conn[c].st # "none" => conn[c].onclose)
  /\ [][\A c \in Conns :
          conn'[c].closes > conn[c].closes =>
            /\ DOMAIN transports' = (DOMAIN transports) \ {conn[c].sid}
            /\ \A k \in DOMAIN transports' : transports'[k] = transports[k]]_vars
  /\ [][\A c \in Conns :
          (conn[c].closes >= 1 /\ conn[c].sid \notin DOMAIN transports)
             => conn[c].sid \notin DOMAIN transports']_vars

\* C11 witness: the close of one session was delivered MaxCloses times while
\* every other connection holds a live session that is still registered.
C11_Witness ==
  \E c \in Conns :
    /\ conn[c].closes = MaxCloses
    /\ conn[c].sid \notin DOMAIN transports
    /\ \A d \in Conns \ {c} :
         conn[d].st = "open" /\ conn[d].closes = 0
         /\ Lookup(transports, conn[d].sid) = d

\* C12: a POST whose sessionId is absent or empty is answered 400 by the
\* route itself, before the registry is read, and is never handed to a
\* transport's handlePostMessage.
C12_MissingSessionIdIs400 ==
  /\ (lastPost.ev # "none" /\ lastPost.q.kind \in {"absent", "empty"})
       => /\ lastPost.ev = "answered"
          /\ lastPost.status = 400
          /\ ~lastPost.lookedUp
          /\ lastPost.to = 0
  /\ \A i \in 1..Len(handling) : handling[i].q.kind \notin {"absent", "empty"}

\* C12 witness: an empty sessionId was answered 400 while a live session is
\* registered and another POST is awaiting its transport.
C12_Witness ==
  /\ lastPost.ev = "answered"
  /\ lastPost.q.kind = "empty"
  /\ lastPost.status = 400
  /\ \E c \in PostConns : conn[c].st = "open" /\ Lookup(transports, conn[c].sid) = c
  /\ Len(handling) > 0

\* A step in which app.post("/messages") ran for a request.
PostArrived ==
  /\ lastPost'.ev \in {"answered", "forwarded"}
  /\ <<handling, lastPost>>' # <<handling, lastPost>>

\* C13 (as stated): a POST whose non-empty sessionId is not the id of a live
\* session is answered 404 and reaches no handlePostMessage; a POST is
\* forwarded only for the id of a live session, and then to its transport.
C13_UnknownSessionIs404 ==
  [][(PostArrived /\ lastPost'.q.kind \notin {"absent", "empty"}) =>
       /\ (lastPost'.q.kind = "uuid" /\ lastPost'.q.id \in OpenSessions)
            \/ (lastPost'.ev = "answered" /\ lastPost'.status = 404)
       /\ lastPost'.ev = "forwarded" =>
            /\ lastPost'.q.id \in OpenSessions
            /\ conn[lastPost'.to].sid = lastPost'.q.id]_vars

\* ------------------------------------------------- streamable binding
\* The requests the POST route has taken.
PostReqs == {r \in Reqs : req[r].method = "POST"}

\* C14 (as stated): for every POST that got a server and a transport, once
\* its response has emitted "close" both transport.close() and server.close()
\* have been called, whatever the interleaving and whether or not connect or
\* handleRequest failed.
C14_CloseTearsDownBoth ==
  \A r \in PostReqs :
    req[r].resClosed =>
      /\ req[r].transport \in closedTransports
      /\ req[r].server \in closedServers

\* C15: every POST gets one createServer() call and one transport of its
\* own; no instance is shared by two requests or replaced during a request.
C15_FreshInstancesPerPost ==
  /\ [](/\ nServers = Cardinality(PostReqs)
        /\ nTransports = Cardinality(PostReqs)
        /\ \A r \in PostReqs :
             /\ req[r].server \in 1..nServers
             /\ req[r].transport \in 1..nTransports
        /\ \A r, s \in PostReqs :
             r # s => /\ req[r].server # req[s].server
                      /\ req[r].transport # req[s].transport)
  /\ [][\A r \in PostReqs :
          /\ req'[r].server = req[r].server
          /\ req'[r].transport = req[r].transport]_vars

\* C15 witness: every request is a POST still in flight, each on its own
\* server and its own transport.
C15_Witness ==
  /\ PostReqs = Reqs
  /\ \A r \in Reqs : req[r].st \in {"connecting", "handling"}
  /\ \E r \in Reqs : req[r].st = "handling"
  /\ Cardinality({req[r].server : r \in Reqs}) = MaxReqs
  /\ Cardinality({req[r].transport : r \in Reqs}) = MaxReqs

\* C16: a POST whose connect or handleRequest failed with no header sent is
\* answered 500 with the JSON-RPC error -32603 "Internal server error", id
\* null; with the headers already sent by the transport the catch writes
\* nothing more.
C16_FailureAnswered500Once ==
  \A r \in Reqs :
    req[r].st = "failed" =>
      /\ req[r].writes = 1
      /\ \/ /\ req[r].status = 500
            /\ req[r].body = ErrorBody(-32603, "Internal server error")
         \/ /\ req[r].status = 200
            /\ req[r].body = NoBody

\* C16 witness: one POST failed before any header and was answered 500, and
\* another failed after the transport had sent its headers.
C16_Witness ==
  \E r, s \in Reqs :
    /\ req[r].st = "failed" /\ req[r].status = 500
    /\ req[s].st = "failed" /\ req[s].status = 200

\* C17: every GET and every DELETE on the endpoint is answered 405 with the
\* JSON-RPC error -32000 "Method not allowed", id null, also while POSTs are
\* in flight, and builds neither a server nor a transport.
C17_GetDeleteAre405 ==
  /\ [](\A r \in Reqs :
          req[r].method \in {"GET", "DELETE"} =>
            /\ req[r].status = 405
            /\ req[r].body = ErrorBody(-32000, "Method not allowed")
            /\ req[r].writes = 1
            /\ req[r].server = 0
            /\ req[r].transport = 0)
  /\ [][\A r \in Reqs :
          (req[r].st = "none" /\ req'[r].method \in {"GET", "DELETE"}) =>
            /\ nServers' = nServers
            /\ nTransports' = nTransports
            /\ closedServers' = closedServers
            /\ closedTransports' = closedTransports]_vars

\* C17 witness: a DELETE was answered 405 while a POST is awaiting
\* handleRequest.
C17_Witness ==
  \E r, s \in Reqs :
    /\ req[r].method = "DELETE" /\ req[r].status = 405
    /\ req[s].method = "POST" /\ req[s].st = "handling"

\* ------------------------------------------------------- HTTP front ends
\* C18 (as stated): on the SSE and the streamable binding GET /health is
\* answered 200 "OK" and GET /ping 200 "pong", and neither request reaches a
\* transport-specific handler.
C18_DiagnosticsOnEveryBinding ==
  (/\ mode \in {"sse", "streamable"}
   /\ hreq.st = "done"
   /\ hreq.method = "GET"
   /\ hreq.url \in {"/health", "/ping"})
    => /\ hreq.status = 200
       /\ hreq.body = (IF hreq.url = "/health" THEN "OK" ELSE "pong")
       /\ hreq.trace[Len(hreq.trace)] \notin {"handler", "get", "post", "delete"}

\* C19: in createBaseHttpServer an OPTIONS request, whatever its URL, is
\* answered 204 once handleCORS has run (which reflects a parseable Origin),
\* and reaches neither the diagnostic endpoints nor handlers.handleRequest.
C19_OptionsShortCircuited ==
  (mode = "base" /\ hreq.method = "OPTIONS") =>
    /\ hreq.st = "done"
    /\ hreq.status = 204
    /\ hreq.body = ""
    /\ hreq.writes = 1
    /\ hreq.trace = <<"cors", "options">>
    /\ hreq.allowOrigin =
         (IF hreq.origin \in {"http://a.example", "http://a.example/page"}
          THEN "http://a.example" ELSE "")

\* C19 witness: OPTIONS /health from a parseable origin was answered 204 with
\* the origin reflected.
C19_Witness ==
  /\ mode = "base"
  /\ hreq.method = "OPTIONS"
  /\ hreq.url = "/health"
  /\ hreq.status = 204
  /\ hreq.origin = "http://a.example/page"
  /\ hreq.allowOrigin = "http://a.example"

\* ------------------------------------------------------ the tool handler
\* C20: a CallTool request naming anything but generate_mermaid_diagram
\* fails with MethodNotFound, whatever its arguments, and goes no further.
C20_UnknownToolIsMethodNotFound ==
  (tcall.st # "idle" /\ tcall.name # "generate_mermaid_diagram") =>
    /\ tcall.st = "failed"
    /\ tcall.kind = "MethodNotFound"
    /\ tcall.message = <<"Unknown tool: ", tcall.name, ".">>
    /\ tcall.renders = 0
    /\ tcall.files = 0

\* C20 witness: a request naming another tool, with arguments that would
\* pass validation, failed with MethodNotFound.
C20_Witness ==
  /\ tcall.st = "failed"
  /\ tcall.kind = "MethodNotFound"
  /\ tcall.name = "Generate_Mermaid_Diagram"
  /\ tcall.args.given
  /\ tcall.args.mermaid = "flowchart TD; A-->B"
  /\ tcall.args.outputType = "file"

\* The request in progress names the tool.
ForTool == tcall.st # "idle" /\ tcall.name = "generate_mermaid_diagram"

\* C21: a call of the tool whose arguments are undefined, lack the diagram
\* code or carry an empty one fails with InvalidParams, not with
\* InternalError, and the handler's promise settles with that McpError.
C21_MissingCodeIsInvalidParams ==
  (ForTool /\ (~tcall.args.given \/ tcall.args.mermaid \in {"absent", ""})) =>
    /\ tcall.st = "failed"
    /\ tcall.kind = "InvalidParams"
    /\ tcall.message[1] = "Invalid parameters: "
    /\ ~tcall.valid
    /\ tcall.renders = 0

\* C21 witness: a call with undefined arguments failed with InvalidParams.
C21_Witness ==
  /\ ForTool
  /\ ~tcall.args.given
  /\ tcall.st = "failed"
  /\ tcall.kind = "InvalidParams"

\* C22 (as stated): a request that passed validation has a diagram code
\* that is non-empty after trimming; a whitespace-only code is rejected by
\* the validator with InvalidParams and renderMermaid is not called for it.
C22_BlankCodeRejectedByValidator ==
  /\ (ForTool /\ tcall.valid) => tcall.args.mermaid # "  "
  /\ (ForTool /\ tcall.args.mermaid = "  ") =>
       /\ tcall.st = "failed"
       /\ tcall.kind = "InvalidParams"
       /\ tcall.renders = 0

\* C23: with a non-empty diagram code, every combination of present or
\* omitted theme, backgroundColor and outputType from the valid sets passes
\* validation, renderMermaid works with theme "default" and backgroundColor
\* "white" for the omitted ones, and an omitted outputType is answered as
\* base64; a theme or outputType outside its enumeration is InvalidParams.
C23_ValidCombinationsAndDefaults ==
  (ForTool /\ tcall.args.given /\ tcall.args.mermaid \notin {"absent", ""}) =>
    IF /\ tcall.args.theme \in {"absent", "default", "base", "forest", "dark",
                                "neutral"}
       /\ tcall.args.outputType \in {"absent", "base64", "svg", "mermaid",
                                     "file", "svg_url", "png_url"}
    THEN /\ tcall.valid
         /\ tcall.kind # "InvalidParams"
         /\ tcall.passed.mermaid = tcall.args.mermaid
         /\ tcall.passed.theme =
              (IF tcall.args.theme = "absent" THEN "default"
               ELSE tcall.args.theme)
         /\ tcall.passed.backgroundColor =
              (IF tcall.args.backgroundColor = "absent" THEN "white"
               ELSE tcall.args.backgroundColor)
         /\ (tcall.st = "returned" /\ tcall.args.outputType \in {"absent", "base64"})
              => /\ tcall.content[1] = "image"
                 /\ tcall.content[3] = "image/png"
    ELSE /\ tcall.st = "failed"
         /\ tcall.kind = "InvalidParams"
         /\ ~tcall.valid
         /\ tcall.renders = 0

\* C23 witness: a call giving only the diagram code was rendered with the
\* defaults and answered with an image.
C23_Witness ==
  /\ ForTool
  /\ tcall.st = "returned"
  /\ tcall.args.mermaid = "flowchart TD; A-->B"
  /\ tcall.args.theme = "absent"
  /\ tcall.args.backgroundColor = "absent"
  /\ tcall.args.outputType = "absent"
  /\ tcall.passed = [mermaid |-> "flowchart TD; A-->B", theme |-> "default",
                     backgroundColor |-> "white"]
  /\ tcall.content[1] = "image"

\* C24: after a render that returned markup m and raster bytes b for the
\* code c, outputType "svg" answers the text m, "mermaid" the text c as it
\* was given, and "base64" or no outputType an image whose data is base64(b)
\* with MIME type image/png.
C24_PayloadByOutputType ==
  (ForTool /\ tcall.st = "returned" /\ tcall.result.screenshot # "undefined") =>
    /\ tcall.args.outputType = "svg" =>
         tcall.content = <<"text", tcall.result.svg>>
    /\ tcall.args.outputType = "mermaid" =>
         tcall.content = <<"text", tcall.args.mermaid>>
    /\ tcall.args.outputType \in {"absent", "base64"} =>
         tcall.content =
           <<"image",
             IF tcall.result.screenshot = "PNG:x" THEN "UE5HOng=" ELSE "UE5HOnk=",
             "image/png">>

\* C24 witness: a call without outputType whose render returned the bytes
\* PNG:y was answered with their base64 text as an image/png image.
C24_Witness ==
  /\ ForTool
  /\ tcall.st = "returned"
  /\ tcall.args.outputType = "absent"
  /\ tcall.args.mermaid = " graph TD; A-->B; "
  /\ tcall.result = [svg |-> "<svg>Y</svg>", screenshot |-> "PNG:y"]
  /\ tcall.content = <<"image", "UE5HOnk=", "image/png">>

\* C25 (as stated): for outputType svg_url and png_url the answer is a text
\* payload holding the mermaid.ink URL of the source (variant svg, img), not
\* an image and not the markup.
C25_HostedUrlIsText ==
  (ForTool /\ tcall.st = "returned"
     /\ tcall.args.outputType \in {"svg_url", "png_url"}) =>
    /\ tcall.content[1] = "text"
    /\ tcall.content[2] # tcall.result.svg

\* renderMermaid has resolved for the request in progress.
Rendered == ForTool /\ tcall.result.svg # ""

\* C26: outputType "file" and a render result without screenshot fail with
\* InternalError whose message contains "Failed to generate screenshot for
\* file output.", and nothing is written.
C26_FileWithoutScreenshotFails ==
  (Rendered /\ tcall.args.outputType = "file"
     /\ tcall.result.screenshot = "undefined") =>
    /\ tcall.st = "failed"
    /\ tcall.kind = "InternalError"
    /\ \E i \in 1..Len(tcall.message) :
         tcall.message[i] = "Failed to generate screenshot for file output."
    /\ tcall.files = 0
    /\ tcall.content = <<>>

\* C26 witness: a "file" call whose render resolved without a screenshot
\* failed with InternalError and wrote no file.
C26_Witness ==
  /\ Rendered
  /\ tcall.args.outputType = "file"
  /\ tcall.result.screenshot = "undefined"
  /\ tcall.st = "failed"
  /\ tcall.kind = "InternalError"
  /\ tcall.files = 0

\* C27: outputType "file" with a failing write fails with InternalError
\* "Failed to save file: " followed by the cause's message, or by "Unknown
\* file error" for a thrown value that is not an Error; the error is not
\* wrapped again as "Failed to generate mermaid: ..." and no text is returned.
C27_WriteFailureReported ==
  (Rendered /\ tcall.args.outputType = "file" /\ tcall.st = "failed"
     /\ tcall.result.screenshot # "undefined") =>
    /\ tcall.kind = "InternalError"
    /\ tcall.message =
         <<"Failed to save file: ",
           IF tcall.fileError.isError THEN tcall.fileError.message[1]
           ELSE "Unknown file error">>
    /\ tcall.content = <<>>
    /\ tcall.files = 0

\* C27 witness: the write of a "file" call threw EACCES and the call failed
\* with that message.
C27_Witness ==
  /\ Rendered
  /\ tcall.args.outputType = "file"
  /\ tcall.st = "failed"
  /\ tcall.fileError = Cause(TRUE, "EACCES: permission denied")
  /\ tcall.message = <<"Failed to save file: ", "EACCES: permission denied">>

\* renderMermaid has rejected for the request in progress.
RenderFailed ==
  /\ ForTool
  /\ tcall.valid
  /\ tcall.st = "failed"
  /\ ~tcall.cause.mcp
  /\ tcall.result.svg = ""

\* C28 (as stated): when the render fails the call fails with an error of
\* kind RenderFailed whose message keeps the render's message when it has
\* one and holds "Unknown error" otherwise.
C28_RenderFailureKind ==
  RenderFailed =>
    /\ tcall.kind = "RenderFailed"
    /\ \E i \in 1..Len(tcall.message) :
         tcall.message[i] = (IF tcall.cause.message[1] # ""
                             THEN tcall.cause.message[1] ELSE "Unknown error.")

\* C29: renderMermaid is called once for every validated call and for no
\* other, and no payload is returned before it resolved, whatever the
\* outputType: when it rejects the call fails, also for outputType "mermaid",
\* whose source is then not echoed.
C29_RenderOnceBeforeBranch ==
  /\ ForTool => tcall.renders = (IF tcall.valid THEN 1 ELSE 0)
  /\ (ForTool /\ tcall.st = "returned") => Rendered
  /\ RenderFailed => tcall.content = <<>>
  /\ (ForTool /\ tcall.valid /\ tcall.st \in {"returned", "failed"}) =>
       (Rendered \/ RenderFailed)

\* C29 witness: a call with outputType "mermaid" whose render rejected with a
\* syntax error failed without a payload.
C29_Witness ==
  /\ RenderFailed
  /\ tcall.args.outputType = "mermaid"
  /\ tcall.args.mermaid = "flowchart TD; A-->B"
  /\ tcall.cause = Cause(TRUE, "Mermaid syntax error: Parse error on line 1")
  /\ tcall.renders = 1
  /\ tcall.content = <<>>

\* C30: an McpError thrown inside the handler (InvalidParams of the
\* validation, InternalError of the "file" branch) reaches the caller with
\* its kind and message as thrown; anything else is wrapped as InternalError
\* "Failed to generate mermaid: " followed by its message, or by "Unknown
\* error." when it has none.
C30_McpErrorUnchangedElseWrapped ==
  (ForTool /\ tcall.st = "failed") =>
    IF tcall.cause.mcp
    THEN /\ tcall.kind = tcall.cause.kind
         /\ tcall.message = tcall.cause.message
         /\ tcall.kind \in {"InvalidParams", "InternalError"}
         /\ tcall.message[1] # "Failed to generate mermaid: "
    ELSE /\ tcall.kind = "InternalError"
         /\ tcall.message =
              <<"Failed to generate mermaid: ",
                IF tcall.cause.message[1] # "" THEN tcall.cause.message[1]
                ELSE "Unknown error.">>

\* C30 witness: the InternalError of the "file" branch for a failed write
\* reached the caller as it was thrown.
C30_Witness ==
  /\ ForTool
  /\ tcall.st = "failed"
  /\ tcall.cause.mcp
  /\ tcall.kind = "InternalError"
  /\ tcall.message = <<"Failed to save file: ", "Unknown file error">>

\* C31: in one process createMermaidRenderer is called at most once, by the
\* first renderMermaid call, and the instance it returned is the one every
\* later call invokes, calls made after a failed one included.
C31_RendererCreatedOnce ==
  /\ rend.created <= 1
  /\ rend.started > 0 => (rend.created = 1 /\ rend.renderer = 1)
  /\ \A i \in 1..Len(rend.calls) : rend.calls[i].engine = 1

\* A render made after an earlier call had failed is awaiting the engine.
C31_Witness ==
  \E i \in 1..Len(rend.calls) :
    rend.calls[i].afterFailure /\ rend.started >= 2

\* What the claim expects of a run with command line a: the runner named by
\* the transport whatever its case, the endpoint given or the default of the
\* transport, the host given or undefined.
ExpectedRunner(a) ==
  CASE a.transport \in {"sse", "SSE", "Sse"} -> "runSSEServer"
    [] a.transport \in {"streamable", "Streamable", "STREAMABLE"} ->
         "runHTTPStreamableServer"
    [] OTHER -> "runStdioServer"
ExpectedEndpoint(a) ==
  IF a.endpoint \notin {"absent", ""} THEN a.endpoint
  ELSE IF ExpectedRunner(a) = "runSSEServer" THEN "/sse" ELSE "/mcp"
ExpectedHost(a) == IF a.host \in {"absent", ""} THEN "undefined" ELSE a.host
DispatchedAsExpected ==
  /\ Len(cli.runs) = 1
  /\ cli.runs[1].runner = ExpectedRunner(cli.argv)
  /\ cli.runs[1].runner # "runStdioServer" =>
       /\ cli.runs[1].endpoint = ExpectedEndpoint(cli.argv)
       /\ cli.runs[1].host = ExpectedHost(cli.argv)

\* C32 as stated: every run of the CLI calls exactly one runner, the one its
\* --transport value names case-insensitively (stdio for any other value),
\* with the endpoint defaulting to /sse or /mcp and an empty host passed as
\* undefined.
C32_OneBindingPerRun == cli.st # "none" => DispatchedAsExpected

\* C32 amended: a run without --help calls exactly one runner, chosen and
\* parameterised as stated; a run with --help exits before the dispatch and
\* calls none.
C32_OneBindingUnlessHelp ==
  /\ cli.st = "ran" => (~cli.argv.help /\ DispatchedAsExpected)
  /\ cli.st = "exited" => (cli.argv.help /\ cli.runs = <<>>)
  /\ (cli.st # "none" /\ cli.argv.help) => cli.st = "exited"

\* A run with --transport SSE, an empty host and no endpoint has dispatched.
C32_Witness ==
  /\ cli.st = "ran"
  /\ cli.argv.transport = "SSE"
  /\ cli.argv.host = ""
  /\ cli.argv.endpoint = "absent"

\* The URL returned has the form https://mermaid.ink/<variant>/pako:<segment>
\* and the segment decodes to a payload with the code of the call.
InkUrlCarriesCode ==
  /\ ink.url = <<"https://mermaid.ink/", ink.variant, "/pako:">>
  /\ \A i \in 1..Len(ink.segment) : ink.segment[i] \notin {"+", "/", "="}
  /\ ink.decoded.code = ink.code

\* The decoded configuration has the theme and the background colour named
\* ("absent" for a key that must not be there), the background colour also
\* as themeVariables.background; the mermaid key is there exactly when one of
\* them is.
InkConfigIs(theme, backgroundColor) ==
  /\ ink.decoded.mermaid.theme = theme
  /\ ink.decoded.mermaid.backgroundColor = backgroundColor
  /\ ink.decoded.mermaid.themeVariables = backgroundColor
  /\ ink.decoded.hasMermaid <=> (theme # "absent" \/ backgroundColor # "absent")

\* C33 as stated: the segment of createMermaidInkUrl(code, variant, options)
\* decodes (base64url, inflate, JSON) to a payload with exactly the input
\* code and a mermaid config whose theme, backgroundColor and
\* themeVariables.background equal the options given, the mermaid key being
\* absent exactly when neither option is given.
C33_InkUrlRoundTrip ==
  ink.st = "decoded" =>
    /\ InkUrlCarriesCode
    /\ InkConfigIs(ink.options.theme, ink.options.backgroundColor)

\* C33 amended: as stated, an option counting as given when it is a non-empty
\* string; an empty theme or backgroundColor is left out like an absent one.
C33_InkUrlRoundTripNonEmpty ==
  ink.st = "decoded" =>
    /\ InkUrlCarriesCode
    /\ InkConfigIs(IF ink.options.theme = "" THEN "absent"
                   ELSE ink.options.theme,
                   IF ink.options.backgroundColor = "" THEN "absent"
                   ELSE ink.options.backgroundColor)

\* A URL made with both options was decoded, its segment holding a character
\* of the URL-safe alphabet.
C33_Witness ==
  /\ ink.st = "decoded"
  /\ ink.options.theme = "dark"
  /\ ink.options.backgroundColor = "#eee"
  /\ \E i \in 1..Len(ink.segment) : ink.segment[i] \in {"-", "_"}

\* C34: a handler registered while ShuttingDown is never invoked, and its
\* registration neither re-enters cleanup nor touches the handlers in
\* progress, nor delays or changes the exit: the process stays running only
\* while a handler that cleanup() invoked is still pending.
C34_LateRegistrationIgnored ==
  /\ [][(isShuttingDown /\ Len(cleanupHandlers') > Len(cleanupHandlers)) =>
          /\ \A i \in (Len(cleanupHandlers) + 1)..Len(cleanupHandlers') :
               hstatus'[i] = "registered" /\ invoked'[i] = 0
          /\ \A i \in 1..Len(cleanupHandlers) :
               hstatus'[i] = hstatus[i] /\ invoked'[i] = invoked[i]
          /\ calls' = calls
          /\ proc' = proc
          /\ isShuttingDown']_vars
  /\ [][isShuttingDown =>
          \A i \in 1..Len(cleanupHandlers) :
            hstatus[i] = "registered" =>
              hstatus'[i] = "registered" /\ invoked'[i] = 0]_vars
  /\ [](isShuttingDown /\ proc = "running" =>
          \E i \in 1..Len(cleanupHandlers) : hstatus[i] = "pending")

\* The process has exited with status 0 while a handler registered during
\* the shutdown was never called.
C34_Witness ==
  /\ isShuttingDown
  /\ proc = "exit0"
  /\ \E i \in 1..Len(cleanupHandlers) :
       hstatus[i] = "registered" /\ invoked[i] = 0

\* C35: in every HTTP binding a handler failure that comes after the response
\* headers were sent is swallowed or logged, the error path writing an error
\* response only if the headers were not yet sent; for createBaseHttpServer:
\* its catch never writes to a response whose headers are out, so nothing is
\* thrown out of it.
C35_NoWriteAfterHeadersSent ==
  (mode = "base" /\ hreq.st = "done") => ~hreq.unhandled

\* C36: the binding does not serialize the POSTs of one session: while a POST
\* to session X awaits handlePostMessage a further POST to X is taken and
\* forwarded, and any awaiting POST may be the next to complete, so that a
\* later-sent POST can complete before an earlier-sent one.
C36_PostsNotSerialized ==
  /\ \A i \in 1..Len(handling) : ENABLED SsePostHandled(i)
  /\ \A i \in 1..Len(handling) :
       (/\ Len(handling) < MaxPosts
        /\ RegistryGet(transports, handling[i].q) = handling[i].to) =>
         ENABLED (SsePost(handling[i].q) /\ Len(handling') = Len(handling) + 1)

\* A POST to a session has completed while an earlier POST to the same
\* session is still awaiting.
C36_Witness ==
  /\ lastPost.ev = "completed"
  /\ lastPost.overtook
  /\ Len(handling) >= 1
  /\ handling[1].to = lastPost.to
  /\ handling[1].q = lastPost.q

\* C37: when renderMermaid calls with different background colours overlap,
\* the stylesheet the engine loads for a render is the one its own call wrote.
C37_OwnStylesheet ==
  \A i \in 1..Len(rend.calls) :
    rend.calls[i].loaded =>
      rend.calls[i].styledWith = Css(rend.calls[i].backgroundColor)

\* The session ids whose registry entry a step adds, removes or replaces.
RegistryChanges ==
  {k \in (DOMAIN transports) \cup (DOMAIN transports') :
     Lookup(transports, k) # Lookup(transports', k)}

\* C38: a step of the push binding touches only the registry entry of its
\* own session: the GET or the close of one connection changes no entry but
\* that of the connection's session id, and a POST, answered 400, 404 or 500,
\* forwarded or completed, changes no entry at all.
C38_RegistryFrame ==
  [][/\ \A k \in RegistryChanges :
          \E c \in PostConns : conn'[c] # conn[c] /\ conn'[c].sid = k
     /\ (handling' # handling \/ lastPost' # lastPost) =>
          transports' = transports]_vars

\* A session was closed and a POST has completed while another session is
\* open and still registered.
C38_Witness ==
  \E c, d \in PostConns :
    /\ c # d
    /\ conn[c].closes >= 1
    /\ conn[d].st = "open"
    /\ Lookup(transports, conn[d].sid) = d
    /\ lastPost.ev = "completed"

\* C39: an invocation that fails with InvalidParams or MethodNotFound has had
\* no side effect: renderMermaid was not called for it and no file was
\* written.
C39_RejectedCallHasNoEffects ==
  (tcall.st = "failed" /\ tcall.kind \in {"InvalidParams", "MethodNotFound"}) =>
    /\ tcall.renders = 0
    /\ tcall.files = 0
    /\ tcall.passed = NoParams
    /\ tcall.result = NoResult

\* A call of the tool asking for a file was refused for its parameters.
C39_Witness ==
  /\ tcall.st = "failed"
  /\ tcall.kind = "InvalidParams"
  /\ tcall.name = ToolName
  /\ tcall.args.outputType = "file"

====
